---- MODULE Spec2Model ----
(***************************************************************************)
(* A state-machine model of rust-lox: the single-pass Pratt compiler       *)
(* (lox/src/compiler.rs, precedence.rs), the bytecode encoding             *)
(* (lox/src/opcodes.rs), the heap with its mark-and-sweep collector and    *)
(* string interning (lox/src/heap.rs, object.rs), the stack VM             *)
(* (lox/src/vm.rs) and the driver (lox/src/interpreter.rs, repl.rs).       *)
(*                                                                         *)
(* Conventions.  Rust indices are 0-based and kept 0-based in the model's  *)
(* numbers (slots, constant indices, byte offsets); a TLA+ sequence holds  *)
(* element i at position i+1.  A heap handle Gc<T> is the address of the   *)
(* object.  The model names an object by the serial number of its          *)
(* allocation (a positive integer; Gc::dangling() is 0), which tells a     *)
(* handle to a freed object apart from a later object in the same block,   *)
(* and keeps the block's address in the object's addr field.               *)
(* A number is an integer (the programs checked use no fractions).         *)
(* A string's bytes are kept run-length encoded: a sequence of             *)
(* <<character, count>> runs with no two adjacent runs of one character.   *)
(***************************************************************************)
EXTENDS Integers, Sequences, FiniteSets, TLC

(* ------------------------------------------------------------------ *)
(* Containers: Vec<T> is a sequence, HashMap<K,V> a function.          *)
(* ------------------------------------------------------------------ *)
\* body with x bound to the value of e, written With([x \in {e} |-> body]):
\* e is evaluated once, however often body mentions x
With(f) == f[CHOOSE x \in DOMAIN f : TRUE]

Max(a, b) == IF a >= b THEN a ELSE b

Last(s) == s[Len(s)]

Front(s) == SubSeq(s, 1, Len(s) - 1)

\* Vec::truncate(n)
Truncate(s, n) == IF n < Len(s) THEN SubSeq(s, 1, n) ELSE s

\* HashMap::insert
MapInsert(f, k, v) == [x \in (DOMAIN f) \cup {k} |-> IF x = k THEN v ELSE f[x]]

\* HashMap::remove
MapRemove(f, k) == [x \in (DOMAIN f) \ {k} |-> f[x]]

EmptyMap == [x \in {} |-> 0]

RECURSIVE SumOver(_, _)
SumOver(S, f) ==
  IF S = {} THEN 0
  ELSE With([x \in {CHOOSE y \in S : TRUE} |-> f[x] + SumOver(S \ {x}, f)])

(* ------------------------------------------------------------------ *)
(* Strings (LoxStr.val) as run-length encoded byte sequences.          *)
(* ------------------------------------------------------------------ *)
\* str + str, as format!("{}{}", a, b) builds it
StrCat(a, b) ==
  IF a = <<>> THEN b
  ELSE IF b = <<>> THEN a
  ELSE IF Last(a)[1] = Head(b)[1]
       THEN Front(a) \o << <<Head(b)[1], Last(a)[2] + Head(b)[2]>> >> \o Tail(b)
       ELSE a \o b

\* the string holding the characters of a lexeme, in order
RECURSIVE ToStr(_)
ToStr(chars) ==
  IF chars = <<>> THEN <<>>
  ELSE StrCat(<< <<Head(chars), 1>> >>, ToStr(Tail(chars)))

\* str::len(): the number of bytes
RECURSIVE StrLen(_)
StrLen(s) == IF s = <<>> THEN 0 ELSE Head(s)[2] + StrLen(Tail(s))

DigitChars == <<"0", "1", "2", "3", "4", "5", "6", "7", "8", "9">>

\* Display of a non-negative whole number: its decimal digits
RECURSIVE NatToChars(_)
NatToChars(n) ==
  IF n < 10 THEN <<DigitChars[n + 1]>>
  ELSE NatToChars(n \div 10) \o <<DigitChars[(n % 10) + 1]>>

\* Display for Number ("{}" of an f64 holding a whole number)
NumToChars(n) == IF n < 0 THEN <<"-">> \o NatToChars(0 - n) ELSE NatToChars(n)

DigitValue(ch) == CHOOSE d \in 0..9 : DigitChars[d + 1] = ch

\* str::parse::<f64>() on a lexeme of decimal digits
RECURSIVE ParseNumber(_)
ParseNumber(chars) ==
  IF chars = <<>> THEN 0
  ELSE ParseNumber(Front(chars)) * 10 + DigitValue(Last(chars))

(* ------------------------------------------------------------------ *)
(* Values (opcodes.rs, enum Value): a tag and a payload.               *)
(* ------------------------------------------------------------------ *)
NilV == [t |-> "Nil", v |-> 0]
NumberV(n) == [t |-> "Number", v |-> n]
BooleanV(b) == [t |-> "Boolean", v |-> IF b THEN 1 ELSE 0]
ObjV(tag, h) == [t |-> tag, v |-> h]

ObjTags == {"String", "Function", "NativeFunction", "Closure", "Class",
            "Instance", "BoundMethod"}

IsObjV(val) == val.t \in ObjTags

(* ------------------------------------------------------------------ *)
(* Sizes reported by Trace::bytes_allocated (64-bit target).           *)
(* ------------------------------------------------------------------ *)
SizeOfValue == 16
SizeOfGc == 8
SizeOfLoxStr == 16
SizeOfLoxFun == 104
SizeOfUpvalueSim == 2
SizeOfUpvalue == 24
SizeOfLoxClosure == 24
SizeOfLoxClass == 56
SizeOfLoxInstance == 56
SizeOfLoxBoundMethod == 24
SizeOfLoxNativeFun == 16

\* HashMap::capacity() after n insertions into a map created empty
\* (the standard library's table keeps 7/8 of a power of two of buckets)
MapCapacity(n) ==
  IF n = 0 THEN 0
  ELSE IF n <= 3 THEN 3
  ELSE IF n <= 7 THEN 7
  ELSE IF n <= 14 THEN 14
  ELSE IF n <= 28 THEN 28
  ELSE 56

\* Trace::bytes_allocated of each kind of heap object
bytes_allocated_of(o) ==
  CASE o.k = "LoxStr" -> StrLen(o.val) + SizeOfLoxStr
    [] o.k = "LoxFun" -> SizeOfLoxFun + Len(o.upvalues) * SizeOfUpvalueSim
    [] o.k = "Upvalue" -> SizeOfUpvalue
    [] o.k = "LoxClosure" -> SizeOfLoxClosure + Len(o.upvalues) * SizeOfGc
    [] o.k = "LoxClass" -> o.cap * (SizeOfValue + SizeOfGc) + SizeOfLoxClass
    [] o.k = "LoxInstance" -> o.cap * (SizeOfValue + SizeOfGc) + SizeOfLoxInstance
    [] o.k = "LoxBoundMethod" -> SizeOfLoxBoundMethod
    [] o.k = "LoxNativeFun" -> SizeOfLoxNativeFun
    [] OTHER -> 0

(* ------------------------------------------------------------------ *)
(* The heap (heap.rs).  store maps a handle to the object it points     *)
(* to; objects and interned_strs own the objects.                      *)
(* ------------------------------------------------------------------ *)
GC_HEAP_GROWTH_FACTOR == 2
INITIAL_NEXT_GC == 1048576

\* Heap::new
HeapNew ==
  [store |-> EmptyMap, objects |-> <<>>, interned_strs |-> EmptyMap,
   bytes_allocated |-> 0, next_gc |-> INITIAL_NEXT_GC, next_serial |-> 1]

\* the allocator: the lowest address no living object occupies
FreeAddr(h) ==
  With([used \in {{h.store[p].addr : p \in DOMAIN h.store}} |->
     CHOOSE a \in 1..(Cardinality(used) + 1) :
       a \notin used /\ \A b \in 1..(a - 1) : b \in used])

\* Box::new followed by the byte accounting shared by manage and
\* intern_string_internal
BoxNew(h, o) ==
  [h EXCEPT !.store = MapInsert(h.store, h.next_serial, [o EXCEPT !.addr = FreeAddr(h)]),
            !.bytes_allocated = bytes_allocated_of(o) + h.bytes_allocated,
            !.next_serial = h.next_serial + 1]

\* Heap::manage: returns the heap and the new handle
manage(h, o) ==
  [h |-> [BoxNew(h, o) EXCEPT !.objects = Append(h.objects, h.next_serial)],
   ptr |-> h.next_serial]

\* a variant of intern_string_internal that allocates without looking
\* the bytes up
intern_string_internal_always_allocating(h, string) ==
  [h |-> [BoxNew(h, [k |-> "LoxStr", marked |-> FALSE, addr |-> 0, val |-> string])
            EXCEPT !.interned_strs = MapInsert(h.interned_strs, string, h.next_serial)],
   ptr |-> h.next_serial]

\* Heap::intern_string_internal: look the bytes up, allocate when absent
intern_string_internal(h, string) ==
  IF string \in DOMAIN h.interned_strs
  THEN [h |-> h, ptr |-> h.interned_strs[string]]
  ELSE [h |-> [BoxNew(h, [k |-> "LoxStr", marked |-> FALSE, addr |-> 0, val |-> string])
                 EXCEPT !.interned_strs = MapInsert(h.interned_strs, string, h.next_serial)],
        ptr |-> h.next_serial]

\* Heap::intern_string
intern_string(h, str_ref) == intern_string_internal(h, str_ref)

(* ------------------------------------------------------------------ *)
(* Instructions and their byte encoding (opcodes.rs, lox-macros).      *)
(* ------------------------------------------------------------------ *)
\* enum Instruction, in declaration order: the tag byte is the position
OpNames ==
  <<"Return", "LoadConstant", "Negate", "Not", "Add", "Subtract", "Multiply",
    "Divide", "Equal", "Greater", "Less", "Nil", "True", "False", "Print", "Pop",
    "DefineGlobal", "GetGlobal", "SetGlobal", "GetLocal", "SetLocal",
    "JumpFwdIfFalse", "JumpForward", "JumpBack", "Call", "Closure",
    "GetUpvalue", "SetUpvalue", "CloseUpvalue", "Class", "GetProperty",
    "SetProperty", "Method", "Invoke", "Inherit", "GetSuper", "SuperInvoke">>

\* the operand fields of each variant: widths in bytes
OperandWidths(op) ==
  IF op \in {"JumpFwdIfFalse", "JumpForward", "JumpBack"} THEN <<2>>
  ELSE IF op \in {"Invoke", "SuperInvoke"} THEN <<1, 1>>
  ELSE IF op \in {"LoadConstant", "DefineGlobal", "GetGlobal", "SetGlobal",
                  "GetLocal", "SetLocal", "Call", "Closure", "GetUpvalue",
                  "SetUpvalue", "Class", "GetProperty", "SetProperty",
                  "Method", "GetSuper"} THEN <<1>>
  ELSE <<>>

I0(op) == [op |-> op, a |-> 0, b |-> 0]
I1(op, a) == [op |-> op, a |-> a, b |-> 0]
I2(op, a, b) == [op |-> op, a |-> a, b |-> b]

OpTag(op) == (CHOOSE i \in 1..Len(OpNames) : OpNames[i] = op) - 1

\* u16::to_ne_bytes on a little-endian target
U16Bytes(n) == <<n % 256, n \div 256>>

\* the generated Instruction::encode: the tag, then each field's bytes
Encode(instr) ==
  With([w \in {OperandWidths(instr.op)} |->
  <<OpTag(instr.op)>> \o
    (IF w = <<>> THEN <<>>
     ELSE IF w = <<2>> THEN U16Bytes(instr.a)
     ELSE IF w = <<1>> THEN <<instr.a>>
     ELSE <<instr.a, instr.b>>)])

\* a variant of Instruction::decode that reads a two-byte operand with the
\* high byte first
Decode_high_byte_first(code, pos) ==
  With([op \in {OpNames[code[pos + 1] + 1]} |->
  With([w \in {OperandWidths(op)} |->
     IF w = <<>> THEN [instr |-> I0(op), next |-> pos + 1]
     ELSE IF w = <<2>>
          THEN [instr |-> I1(op, 256 * code[pos + 2] + code[pos + 3]), next |-> pos + 3]
     ELSE IF w = <<1>> THEN [instr |-> I1(op, code[pos + 2]), next |-> pos + 2]
     ELSE [instr |-> I2(op, code[pos + 2], code[pos + 3]), next |-> pos + 3]])])

\* the generated Instruction::decode at byte offset pos of code:
\* the instruction and the offset just past it
Decode(code, pos) ==
  With([op \in {OpNames[code[pos + 1] + 1]} |->
  With([w \in {OperandWidths(op)} |->
     IF w = <<>> THEN [instr |-> I0(op), next |-> pos + 1]
     ELSE IF w = <<2>>
          THEN [instr |-> I1(op, code[pos + 2] + 256 * code[pos + 3]), next |-> pos + 3]
     ELSE IF w = <<1>> THEN [instr |-> I1(op, code[pos + 2]), next |-> pos + 2]
     ELSE [instr |-> I2(op, code[pos + 2], code[pos + 3]), next |-> pos + 3]])])

U8_MAX == 255
U16_MAX == 65535

\* Chunk::new
ChunkNew == [code |-> <<>>, values |-> <<>>]

\* Chunk::add_instruction (the lines vector only feeds error messages)
add_instruction(chunk, instr) == [chunk EXCEPT !.code = chunk.code \o Encode(instr)]

\* Chunk::add_value: the index is cast to u8
add_value(chunk, value) ==
  [chunk |-> [chunk EXCEPT !.values = Append(chunk.values, value)],
   index |-> Len(chunk.values) % (U8_MAX + 1)]

\* Chunk::patch_bytecode_index
patch_bytecode_index(chunk, loc, value) ==
  [chunk EXCEPT !.code =
     [i \in 1..Len(chunk.code) |->
        IF i = loc + 1 THEN U16Bytes(value)[1]
        ELSE IF i = loc + 2 THEN U16Bytes(value)[2]
        ELSE chunk.code[i]]]

\* ChunkIterator collected: the instructions of a chunk from offset pos
RECURSIVE Instrs(_, _)
Instrs(code, pos) ==
  IF pos >= Len(code) THEN <<>>
  ELSE With([d \in {Decode(code, pos)} |-> <<d.instr>> \o Instrs(code, d.next)])

(* ------------------------------------------------------------------ *)
(* Tokens (scanner.rs) and the Pratt table (precedence.rs).            *)
(* ------------------------------------------------------------------ *)
Tok(kind, chars) == [kind |-> kind, description |-> chars]

\* Token::placeholder
TokenPlaceholder == Tok("Placeholder", <<>>)

EOFToken == Tok("EOF", <<>>)

\* enum Precedence, by position
PrecNone == 0
PrecAssignment == 1
PrecOr == 2
PrecAnd == 3
PrecEquality == 4
PrecComparison == 5
PrecTerm == 6
PrecFactor == 7
PrecUnary == 8
PrecCall == 9
PrecPrimary == 10

\* Precedence::next_greater
next_greater(p) ==
  CASE p = PrecNone -> PrecAssignment
    [] p = PrecAssignment -> PrecOr
    [] p = PrecOr -> PrecAnd
    [] p = PrecAnd -> PrecEquality
    [] p = PrecEquality -> PrecComparison
    [] p = PrecComparison -> PrecTerm
    [] p = PrecTerm -> PrecFactor
    [] p = PrecFactor -> PrecTerm
    [] p = PrecUnary -> PrecCall
    [] p = PrecCall -> PrecPrimary

Rule(prefix, infix, prec) == [prefix |-> prefix, infix |-> infix, curr_prec |-> prec]

PLACEHOLDER_PARSERULE == Rule("", "", PrecNone)

\* precedence::parse_rule
parse_rule(token_type) ==
  CASE token_type = "LeftParen" -> Rule("grouping", "", PrecNone)
    [] token_type = "Minus" -> Rule("unary", "binary", PrecTerm)
    [] token_type = "Plus" -> Rule("", "binary", PrecTerm)
    [] token_type \in {"Slash", "Star"} -> Rule("", "binary", PrecFactor)
    [] token_type = "Number" -> Rule("number", "", PrecNone)
    [] token_type \in {"False", "Nil", "True"} -> Rule("literal", "", PrecNone)
    [] token_type = "Bang" -> Rule("unary", "", PrecNone)
    [] token_type \in {"BangEqual", "EqualEqual"} -> Rule("", "binary", PrecEquality)
    [] token_type \in {"Greater", "GreaterEqual", "Less", "LessEqual"} ->
         Rule("", "binary", PrecComparison)
    [] token_type = "String" -> Rule("string", "", PrecNone)
    [] token_type = "Identifier" -> Rule("variable", "", PrecNone)
    [] OTHER -> PLACEHOLDER_PARSERULE

\* The table completed with the entries for the handlers compiler.rs
\* defines but precedence.rs does not wire (call, dot, and, or, this,
\* super_), as the language's grammar places them.
parse_rule_full(token_type) ==
  CASE token_type = "LeftParen" -> Rule("grouping", "call", PrecCall)
    [] token_type = "Dot" -> Rule("", "dot", PrecCall)
    [] token_type = "And" -> Rule("", "and", PrecAnd)
    [] token_type = "Or" -> Rule("", "or", PrecOr)
    [] token_type = "This" -> Rule("this", "", PrecNone)
    [] token_type = "Super" -> Rule("super_", "", PrecNone)
    [] OTHER -> parse_rule(token_type)

(* ------------------------------------------------------------------ *)
(* The compiler (compiler.rs).  A compiler state c holds the fields    *)
(* of struct Compiler; errors is what ErrorHandler::error_at printed.  *)
(* A method that returns a value returns [c |-> state, r |-> value].   *)
(* ------------------------------------------------------------------ *)
NameThis == <<"t", "h", "i", "s">>
NameSuper == <<"s", "u", "p", "e", "r">>
NameInit == <<"i", "n", "i", "t">>

\* LOCALS_MAX_CAPACITY = u8::MAX
LOCALS_MAX_CAPACITY == 255

\* Local::new
LocalNew(name, depth) == [name |-> name, depth |-> depth, captured |-> FALSE]

\* LoxFun::new
LoxFunNew(name) ==
  [k |-> "LoxFun", marked |-> FALSE, addr |-> 0, chunk |-> ChunkNew, name |-> name,
   arity |-> 0, upvalues |-> <<>>]

\* CompilerContext::new with StackSim::new: slot 0 is reserved
CompilerContextNew(function_type, name) ==
  [function |-> LoxFunNew(name),
   upvalues |-> <<>>,
   function_type |-> function_type,
   stack_sim |-> [locals |-> <<LocalNew(IF function_type \in {"Method", "Initializer"}
                                        THEN NameThis ELSE <<>>, 0)>>,
                  scope_depth |-> 0],
   errh |-> [panic_mode |-> FALSE, had_error |-> FALSE]]

\* Compiler::new over the token stream of the source; full_rules tells
\* which Pratt table the build carries
CompilerNew(toks, full_rules) ==
  With([e \in {intern_string(HeapNew, <<>>)} |->
  [scanner |-> [toks |-> toks, pos |-> 1],
   full_rules |-> full_rules,
   tin |-> [cur |-> TokenPlaceholder, pre |-> TokenPlaceholder],
   ctx_stk |-> <<CompilerContextNew("Script", e.ptr)>>,
   curr_ctx |-> 0,
   class_ctxs |-> <<>>,
   heap |-> e.h,
   errors |-> <<>>,
   syncs |-> 0]])

\* the scanner's contract: the tokens in order, then EOF for ever
scan_token(sc) ==
  IF sc.pos <= Len(sc.toks)
  THEN [tok |-> sc.toks[sc.pos],
        scanner |-> [sc EXCEPT !.pos = sc.pos + 1]]
  ELSE [tok |-> EOFToken, scanner |-> sc]

\* cctx!(self)
cctx(c) == c.ctx_stk[c.curr_ctx + 1]

\* the table lookup the compiler makes for a token kind
rule_of(c, token_type) ==
  IF c.full_rules THEN parse_rule_full(token_type) ELSE parse_rule(token_type)

\* ErrorHandler::error_at on the handler of context ctx_in; the report
\* written to stderr is kept with the number of runs of synchronize
\* before it
error_at(c, ctx_in, token, message) ==
  IF c.ctx_stk[ctx_in + 1].errh.panic_mode THEN c
  ELSE [c EXCEPT !.ctx_stk[ctx_in + 1].errh = [panic_mode |-> TRUE, had_error |-> TRUE],
                 !.errors = Append(c.errors,
                                   [ctx |-> ctx_in, kind |-> token.kind,
                                    at |-> token.description, message |-> message,
                                    syncs |-> c.syncs])]

error_at_current(c, message) == error_at(c, c.curr_ctx, c.tin.cur, message)

error_at_previous(c, message) == error_at(c, c.curr_ctx, c.tin.pre, message)

\* the loop of Compiler::advance: skip Error tokens, reporting each
RECURSIVE advance_scan(_)
advance_scan(c) ==
  With([s \in {scan_token(c.scanner)} |->
  With([c1 \in {[c EXCEPT !.tin.cur = s.tok, !.scanner = s.scanner]} |->
     IF s.tok.kind # "Error" THEN c1
     ELSE advance_scan(error_at_current(c1, s.tok.description))])])

\* Compiler::advance
advance(c) == advance_scan([c EXCEPT !.tin.pre = c.tin.cur])

\* Compiler::check
check(c, token_type) == c.tin.cur.kind = token_type

\* Compiler::consume
consume(c, token_type, message) ==
  IF c.tin.cur.kind = token_type THEN advance(c) ELSE error_at_current(c, message)

\* Compiler::match_tt
match_tt(c, token_type) ==
  IF check(c, token_type) THEN [c |-> advance(c), r |-> TRUE]
  ELSE [c |-> c, r |-> FALSE]

\* cchunk!(self).next_byte_index()
next_byte_index(c) == Len(cctx(c).function.chunk.code)

\* Compiler::emit_instruction
emit_instruction(c, instr) ==
  [c EXCEPT !.ctx_stk[c.curr_ctx + 1].function.chunk = add_instruction(@, instr)]

\* Compiler::emit_pop
emit_pop(c) == emit_instruction(c, I0("Pop"))

\* a variant of emit_return that returns nil from every function
emit_return_nil(c) == emit_instruction(emit_instruction(c, I0("Nil")), I0("Return"))

\* Compiler::emit_return
emit_return(c) ==
  emit_instruction(
    IF cctx(c).function_type = "Initializer"
    THEN emit_instruction(c, I1("GetLocal", 0))
    ELSE emit_instruction(c, I0("Nil")),
    I0("Return"))

\* Compiler::make_constant on the current context
make_constant(c, value) ==
  With([a \in {add_value(cctx(c).function.chunk, value)} |->
  With([c1 \in {[c EXCEPT !.ctx_stk[c.curr_ctx + 1].function.chunk = a.chunk]} |->
     IF a.index > U8_MAX
     THEN [c |-> error_at_previous(c1, "Too many constants in one chunk."), r |-> 0]
     ELSE [c |-> c1, r |-> a.index]])])

\* Compiler::emit_constant
emit_constant(c, value) ==
  With([m \in {make_constant(c, value)} |-> emit_instruction(m.c, I1("LoadConstant", m.r))])

\* Compiler::make_identifier_from_name
make_identifier_from_name(c, name) ==
  With([s \in {intern_string(c.heap, ToStr(name))} |->
     make_constant([c EXCEPT !.heap = s.h], ObjV("String", s.ptr))])

\* Compiler::make_identifier
make_identifier(c) == make_identifier_from_name(c, c.tin.pre.description)

\* Compiler::emit_jump
emit_jump(c, instr) == [c |-> emit_instruction(c, instr), r |-> next_byte_index(c)]

\* a variant of patch_fwd_jump that refuses the largest distance
patch_fwd_jump_below_max(c, patch_loc) ==
  With([patch \in {next_byte_index(c) - patch_loc} |->
  IF patch < U16_MAX
  THEN [c EXCEPT !.ctx_stk[c.curr_ctx + 1].function.chunk =
                    patch_bytecode_index(@, patch_loc + 1, patch)]
  ELSE error_at_previous(c, "Too much code to jump over.")])

\* Compiler::patch_fwd_jump
patch_fwd_jump(c, patch_loc) ==
  With([patch \in {next_byte_index(c) - patch_loc} |->
  IF patch <= U16_MAX
  THEN [c EXCEPT !.ctx_stk[c.curr_ctx + 1].function.chunk =
                    patch_bytecode_index(@, patch_loc + 1, patch)]
  ELSE error_at_previous(c, "Too much code to jump over.")])

\* a variant of emit_back_jump that counts the distance from the end of the
\* JumpBack instruction
emit_back_jump_from_end(c, jump_index) ==
  With([offset \in {next_byte_index(c) + 3 - jump_index} |->
  IF offset <= U16_MAX THEN emit_instruction(c, I1("JumpBack", offset))
  ELSE error_at_previous(c, "Loop body too large.")])

\* Compiler::emit_back_jump
emit_back_jump(c, jump_index) ==
  With([offset \in {next_byte_index(c) - jump_index} |->
  IF offset <= U16_MAX THEN emit_instruction(c, I1("JumpBack", offset))
  ELSE error_at_previous(c, "Loop body too large.")])

\* StackSim::add_local behind the capacity test of Compiler::add_specified_local
add_specified_local(c, name) ==
  IF Len(cctx(c).stack_sim.locals) = LOCALS_MAX_CAPACITY
  THEN error_at_previous(c, "Too many local variables in function.")
  ELSE [c EXCEPT !.ctx_stk[c.curr_ctx + 1].stack_sim.locals = Append(@, LocalNew(name, -1))]

\* Compiler::add_local
add_local(c) == add_specified_local(c, c.tin.pre.description)

\* StackSim::mark_initialized
mark_initialized(c) ==
  With([sim \in {cctx(c).stack_sim} |->
  IF sim.scope_depth = 0 THEN c
  ELSE [c EXCEPT !.ctx_stk[c.curr_ctx + 1].stack_sim.locals[Len(sim.locals)].depth =
                    sim.scope_depth]])

\* Compiler::begin_scope
begin_scope(c) == [c EXCEPT !.ctx_stk[c.curr_ctx + 1].stack_sim.scope_depth = @ + 1]

\* the loop of Compiler::end_scope: drop the locals of the closed scope
RECURSIVE end_scope_pop(_)
end_scope_pop(c) ==
  With([sim \in {cctx(c).stack_sim} |->
  IF sim.locals # <<>> /\ sim.scope_depth < Last(sim.locals).depth
  THEN end_scope_pop(
         emit_instruction(
           [c EXCEPT !.ctx_stk[c.curr_ctx + 1].stack_sim.locals = Front(sim.locals)],
           IF Last(sim.locals).captured THEN I0("CloseUpvalue") ELSE I0("Pop")))
  ELSE c])

\* Compiler::end_scope
end_scope(c) ==
  end_scope_pop([c EXCEPT !.ctx_stk[c.curr_ctx + 1].stack_sim.scope_depth = @ - 1])

\* the locals Compiler::declare_variable compares the new name with:
\* from the top down to the first one of an enclosing scope
SameScopeLocals(locals, scope_depth) ==
  With([outer \in {{i \in 1..Len(locals) :
                      locals[i].depth # -1 /\ locals[i].depth < scope_depth}} |->
     {locals[i].name : i \in {j \in 1..Len(locals) : \A k \in outer : k < j}}])

\* Compiler::declare_variable
declare_variable(c) ==
  With([sim \in {cctx(c).stack_sim} |->
  IF sim.scope_depth = 0 THEN c
  ELSE add_local(
         IF c.tin.pre.description \in SameScopeLocals(sim.locals, sim.scope_depth)
         THEN error_at(c, c.curr_ctx, c.tin.pre,
                       "Already variable with this name in this scope.")
         ELSE c)])

\* Compiler::define_variable
define_variable(c, global) ==
  IF cctx(c).stack_sim.scope_depth > 0 THEN mark_initialized(c)
  ELSE emit_instruction(c, I1("DefineGlobal", global))

\* Compiler::parse_variable
parse_variable(c, msg) ==
  With([c1 \in {declare_variable(consume(c, "Identifier", msg))} |->
  IF cctx(c1).stack_sim.scope_depth > 0 THEN [c |-> c1, r |-> 0]
  ELSE make_identifier(c1)])

\* a variant of CompilerContext::resolve_local that scans the locals from
\* the oldest to the most recently declared
resolve_local_ctx_oldest_first(c, ctx_in, name) ==
  With([locals \in {c.ctx_stk[ctx_in + 1].stack_sim.locals} |->
  With([hits \in {{i \in 1..Len(locals) : locals[i].name = name}} |->
     IF hits = {} THEN [c |-> c, r |-> -1]
     ELSE With([i \in {CHOOSE j \in hits : \A k \in hits : j <= k} |->
          [c |-> IF locals[i].depth = -1
                 THEN error_at(c, ctx_in, c.tin.pre,
                               "Can't read local variable in its own initializer.")
                 ELSE c,
           r |-> (i - 1) % (U8_MAX + 1)]])])])

\* CompilerContext::resolve_local on context ctx_in; r = -1 stands for None
resolve_local_ctx(c, ctx_in, name) ==
  With([locals \in {c.ctx_stk[ctx_in + 1].stack_sim.locals} |->
  With([hits \in {{i \in 1..Len(locals) : locals[i].name = name}} |->
     IF hits = {} THEN [c |-> c, r |-> -1]
     ELSE With([i \in {CHOOSE j \in hits : \A k \in hits : k <= j} |->
          [c |-> IF locals[i].depth = -1
                 THEN error_at(c, ctx_in, c.tin.pre,
                               "Can't read local variable in its own initializer.")
                 ELSE c,
           r |-> (i - 1) % (U8_MAX + 1)]])])])

\* Compiler::resolve_local
resolve_local(c, name) == resolve_local_ctx(c, c.curr_ctx, name)

\* a variant of add_upvalue that pushes a descriptor without looking for it
add_upvalue_always_pushing(c, ctx_in, upvalue) ==
  With([ups \in {c.ctx_stk[ctx_in + 1].upvalues} |->
     IF Len(ups) = U8_MAX
     THEN [c |-> error_at_previous(c, "Too many closure variables in function."), r |-> 0]
     ELSE [c |-> [c EXCEPT !.ctx_stk[ctx_in + 1].upvalues = Append(ups, upvalue)],
           r |-> Len(ups) % (U8_MAX + 1)]])

\* Compiler::add_upvalue
add_upvalue(c, ctx_in, upvalue) ==
  With([ups \in {c.ctx_stk[ctx_in + 1].upvalues} |->
  With([pos \in {{i \in 1..Len(ups) : ups[i] = upvalue}} |->
     IF pos # {} THEN [c |-> c, r |-> (CHOOSE i \in pos : \A j \in pos : i <= j) - 1]
     ELSE IF Len(ups) = U8_MAX
          THEN [c |-> error_at_previous(c, "Too many closure variables in function."),
                r |-> 0]
     ELSE [c |-> [c EXCEPT !.ctx_stk[ctx_in + 1].upvalues = Append(ups, upvalue)],
           r |-> Len(ups) % (U8_MAX + 1)]])])

\* Compiler::resolve_upvalue; r = -1 stands for None
RECURSIVE resolve_upvalue(_, _, _)
resolve_upvalue(c, ctx_in, name) ==
  IF ctx_in = 0 THEN [c |-> c, r |-> -1]
  ELSE With([local \in {resolve_local_ctx(c, ctx_in - 1, name)} |->
       IF local.r # -1
       THEN add_upvalue(
              [local.c EXCEPT !.ctx_stk[ctx_in].stack_sim.locals[local.r + 1].captured = TRUE],
              ctx_in, [kind |-> "Local", index |-> local.r])
       ELSE With([upvalue \in {resolve_upvalue(local.c, ctx_in - 1, name)} |->
            IF upvalue.r # -1
            THEN add_upvalue(upvalue.c, ctx_in, [kind |-> "Upvalue", index |-> upvalue.r])
            ELSE [c |-> upvalue.c, r |-> -1]])])

(* ---- expressions ---- *)
RECURSIVE parse_precedence(_, _)

\* Compiler::expression
expression(c) == parse_precedence(c, PrecAssignment)

\* Compiler::number
number(c) == emit_constant(c, NumberV(ParseNumber(c.tin.pre.description)))

\* Compiler::literal
literal(c) ==
  CASE c.tin.pre.kind = "False" -> emit_instruction(c, I0("False"))
    [] c.tin.pre.kind = "Nil" -> emit_instruction(c, I0("Nil"))
    [] c.tin.pre.kind = "True" -> emit_instruction(c, I0("True"))

\* Compiler::string: the lexeme without its quotes
string(c) ==
  With([lexeme \in {c.tin.pre.description} |->
  With([s \in {intern_string(c.heap, ToStr(SubSeq(lexeme, 2, Len(lexeme) - 1)))} |->
     emit_constant([c EXCEPT !.heap = s.h], ObjV("String", s.ptr))])])

\* Compiler::grouping
grouping(c) == consume(expression(c), "RightParen", "Expect ')' after expression.")

\* Compiler::unary
unary(c) ==
  With([op_type \in {c.tin.pre.kind} |->
  With([c1 \in {parse_precedence(c, PrecUnary)} |->
     CASE op_type = "Minus" -> emit_instruction(c1, I0("Negate"))
       [] op_type = "Bang" -> emit_instruction(c1, I0("Not"))
       [] OTHER -> c1])])

\* Compiler::binary
binary(c) ==
  With([op_type \in {c.tin.pre.kind} |->
  With([prule \in {rule_of(c, op_type)} |->
  With([c1 \in {parse_precedence(c, next_greater(prule.curr_prec))} |->
     CASE op_type = "Plus" -> emit_instruction(c1, I0("Add"))
       [] op_type = "Minus" -> emit_instruction(c1, I0("Subtract"))
       [] op_type = "Star" -> emit_instruction(c1, I0("Multiply"))
       [] op_type = "Slash" -> emit_instruction(c1, I0("Divide"))
       [] op_type = "EqualEqual" -> emit_instruction(c1, I0("Equal"))
       [] op_type = "BangEqual" ->
            emit_instruction(emit_instruction(c1, I0("Equal")), I0("Not"))
       [] op_type = "Greater" -> emit_instruction(c1, I0("Greater"))
       [] op_type = "GreaterEqual" ->
            emit_instruction(emit_instruction(c1, I0("Less")), I0("Not"))
       [] op_type = "Less" -> emit_instruction(c1, I0("Less"))
       [] op_type = "LessEqual" ->
            emit_instruction(emit_instruction(c1, I0("Greater")), I0("Not"))])])])

\* Compiler::and
and_(c) ==
  With([j \in {emit_jump(c, I1("JumpFwdIfFalse", U16_MAX))} |->
     patch_fwd_jump(parse_precedence(emit_pop(j.c), PrecAnd), j.r)])

\* Compiler::or
or_(c) ==
  With([jmpif \in {emit_jump(c, I1("JumpFwdIfFalse", U16_MAX))} |->
  With([jmp \in {emit_jump(jmpif.c, I1("JumpForward", U16_MAX))} |->
  With([c1 \in {emit_pop(patch_fwd_jump(jmp.c, jmpif.r))} |->
     patch_fwd_jump(parse_precedence(c1, PrecOr), jmp.r)])])])

\* one turn of the loop of Compiler::argument_count, a.r arguments compiled
\* so far; the turn after which no comma follows is the last
argument_turn(a) ==
  With([c1 \in {expression(a.c)} |->
  With([c2 \in {IF a.r = U8_MAX
                THEN error_at_previous(c1, "Can't have more than 255 arguments.")
                ELSE c1} |->
  With([m \in {match_tt(c2, "Comma")} |->
     [c |-> m.c, r |-> (a.r + 1) % (U8_MAX + 1), done |-> ~m.r]])])])

\* at most k turns of the loop, halved so that a long argument list does
\* not nest the evaluation as deep as it is long
RECURSIVE argument_turns(_, _)
argument_turns(a, k) ==
  IF a.done \/ k = 0 THEN a
  ELSE IF k = 1 THEN argument_turn(a)
  ELSE argument_turns(argument_turns(a, k \div 2), k - k \div 2)

\* the loop of Compiler::argument_count from arg_count arguments on; every
\* turn takes at least one token, or is the last
argument_loop(c, arg_count) ==
  With([a \in {argument_turns([c |-> c, r |-> arg_count, done |-> FALSE],
                              Len(c.scanner.toks) + 1)} |->
     [c |-> a.c, r |-> a.r]])

\* Compiler::argument_count
argument_count(c) ==
  With([a \in {IF ~check(c, "RightParen") THEN argument_loop(c, 0) ELSE [c |-> c, r |-> 0]} |->
     [c |-> consume(a.c, "RightParen", "Expect ')' after arguments."), r |-> a.r]])

\* Compiler::call
call(c) ==
  With([a \in {argument_count(c)} |-> emit_instruction(a.c, I1("Call", a.r))])

\* Compiler::dot
dot(c, assign) ==
  With([c1 \in {consume(c, "Identifier", "Expect property name after '.'.")} |->
  With([rhs \in {make_identifier(c1)} |->
  With([eq \in {IF assign THEN match_tt(rhs.c, "Equal") ELSE [c |-> rhs.c, r |-> FALSE]} |->
  With([lp \in {match_tt(rhs.c, "LeftParen")} |->
     IF eq.r THEN emit_instruction(expression(eq.c), I1("SetProperty", rhs.r))
     ELSE IF lp.r
          THEN With([a \in {argument_count(lp.c)} |->
                  emit_instruction(a.c, I2("Invoke", rhs.r, a.r))])
     ELSE emit_instruction(rhs.c, I1("GetProperty", rhs.r))])])])])

\* Compiler::named_variable
named_variable(c, name, assign) ==
  With([arg \in {resolve_local(c, name)} |->
  With([upvalue \in {resolve_upvalue(arg.c, Len(arg.c.ctx_stk) - 1, name)} |->
  With([var_index \in {make_identifier_from_name(upvalue.c, name)} |->
  With([c1 \in {IF arg.r # -1 THEN arg.c
                ELSE IF upvalue.r # -1 THEN upvalue.c ELSE var_index.c} |->
  With([get_op \in {IF arg.r # -1 THEN I1("GetLocal", arg.r)
                    ELSE IF upvalue.r # -1 THEN I1("GetUpvalue", upvalue.r)
                    ELSE I1("GetGlobal", var_index.r)} |->
  With([set_op \in {IF arg.r # -1 THEN I1("SetLocal", arg.r)
                    ELSE IF upvalue.r # -1 THEN I1("SetUpvalue", upvalue.r)
                    ELSE I1("SetGlobal", var_index.r)} |->
  With([eq \in {match_tt(c1, "Equal")} |->
     IF eq.r /\ assign THEN emit_instruction(expression(eq.c), set_op)
     ELSE emit_instruction(eq.c, get_op)])])])])])])])

\* Compiler::variable
variable(c, assign) == named_variable(c, c.tin.pre.description, assign)

\* Compiler::this
this(c) ==
  variable(IF c.class_ctxs = <<>>
           THEN error_at_previous(c, "Can't use 'this' outside of a class.")
           ELSE c,
           FALSE)

\* Compiler::super_
super_(c) ==
  With([c1 \in {IF c.class_ctxs = <<>>
                THEN error_at_previous(c, "Can't use 'super' outside of a class.")
                ELSE IF ~Last(c.class_ctxs).has_superclass
                     THEN error_at_previous(c, "Can't use 'super' in a class with no superclass.")
                ELSE c} |->
  With([c2 \in {consume(consume(c1, "Dot", "Expect '.' after 'super'."),
                        "Identifier", "Expect superclass method name.")} |->
  With([method_name \in {make_identifier(c2)} |->
  With([c3 \in {named_variable(method_name.c, NameThis, FALSE)} |->
  With([lp \in {match_tt(c3, "LeftParen")} |->
     IF lp.r
     THEN With([a \in {argument_count(lp.c)} |->
             emit_instruction(named_variable(a.c, NameSuper, FALSE),
                              I2("SuperInvoke", method_name.r, a.r))])
     ELSE emit_instruction(named_variable(lp.c, NameSuper, FALSE),
                           I1("GetSuper", method_name.r))])])])])])

\* calling the prefix handler of a rule
prefix_fn(c, handler, assign) ==
  CASE handler = "grouping" -> grouping(c)
    [] handler = "unary" -> unary(c)
    [] handler = "number" -> number(c)
    [] handler = "literal" -> literal(c)
    [] handler = "string" -> string(c)
    [] handler = "variable" -> variable(c, assign)
    [] handler = "this" -> this(c)
    [] handler = "super_" -> super_(c)

\* calling the infix handler of a rule
infix_fn(c, handler, assign) ==
  CASE handler = "binary" -> binary(c)
    [] handler = "call" -> call(c)
    [] handler = "dot" -> dot(c, assign)
    [] handler = "and" -> and_(c)
    [] handler = "or" -> or_(c)

\* the infix loop of Compiler::parse_precedence
RECURSIVE infix_loop(_, _, _)
infix_loop(c, prec_bound, can_assign) ==
  With([prule \in {rule_of(c, c.tin.cur.kind)} |->
  IF prec_bound <= prule.curr_prec
  THEN infix_loop(infix_fn(advance(c), prule.infix, can_assign), prec_bound, can_assign)
  ELSE c])

\* Compiler::parse_precedence
parse_precedence(c, prec_bound) ==
  With([rule \in {rule_of(c, c.tin.cur.kind)} |->
  With([can_assign \in {rule.curr_prec <= PrecAssignment} |->
     IF rule.prefix # ""
     THEN infix_loop(prefix_fn(advance(c), rule.prefix, can_assign), prec_bound, can_assign)
     ELSE advance(error_at_previous(c, "Unexpected expression."))])])

(* ---- declarations and statements ---- *)
(* The compiler's calls that enclose other declarations or statements  *)
(* are kept as a stack of calls in progress, innermost last: a call is *)
(* [f, a, b], the function it is in (and where in it) and its locals.  *)
(* An operator named after a function of the compiler runs it up to    *)
(* the first declaration or statement it encloses and returns the      *)
(* compiler and the calls, the enclosed call on top; resume runs a     *)
(* call on from where its enclosed call returned.                      *)
Call(f, a, b) == [f |-> f, a |-> a, b |-> b]

\* a variant of end_compile that does not look at had_error
end_compile_whatever_errors(c) ==
  With([c1 \in {emit_return(c)} |->
  With([ctx \in {Last(c1.ctx_stk)} |->
  With([m \in {manage(c1.heap, [ctx.function EXCEPT !.upvalues = ctx.upvalues])} |->
     [c |-> [c1 EXCEPT !.curr_ctx = IF c1.curr_ctx = 0 THEN 0 ELSE c1.curr_ctx - 1,
                       !.ctx_stk = Front(c1.ctx_stk),
                       !.heap = m.h],
      r |-> m.ptr]])])])

\* Compiler::end_compile; r = -1 stands for None
end_compile(c) ==
  With([c1 \in {emit_return(c)} |->
  IF cctx(c1).errh.had_error THEN [c |-> c1, r |-> -1]
  ELSE With([ctx \in {Last(c1.ctx_stk)} |->
       With([m \in {manage(c1.heap, [ctx.function EXCEPT !.upvalues = ctx.upvalues])} |->
          [c |-> [c1 EXCEPT !.curr_ctx = IF c1.curr_ctx = 0 THEN 0 ELSE c1.curr_ctx - 1,
                            !.ctx_stk = Front(c1.ctx_stk),
                            !.heap = m.h],
           r |-> m.ptr]])])])

\* Compiler::expression_statement
expression_statement(c) == expression(c)

\* Compiler::print_statement
print_statement(c) ==
  emit_instruction(consume(expression(c), "SemiColon", "Expect ';' after value."),
                   I0("Print"))

\* Compiler::var_declaration
var_declaration(c) ==
  With([var_name \in {parse_variable(c, "Expect variable name.")} |->
  With([eq \in {match_tt(var_name.c, "Equal")} |->
  With([c1 \in {IF eq.r THEN expression(eq.c) ELSE emit_instruction(eq.c, I0("Nil"))} |->
     define_variable(consume(c1, "SemiColon", "Expect ';' after variable declaration."),
                     var_name.r)])])])

\* Compiler::return_statement
return_statement(c) ==
  With([c1 \in {IF cctx(c).function_type = "Script"
                THEN error_at_previous(c, "Can't return from top-level code.")
                ELSE c} |->
  With([semi \in {match_tt(c1, "SemiColon")} |->
     IF semi.r THEN emit_return(semi.c)
     ELSE With([c2 \in {IF cctx(semi.c).function_type = "Initializer"
                        THEN error_at_previous(semi.c, "Can't return a value from an initializer.")
                        ELSE semi.c} |->
             emit_instruction(
               consume(expression(c2), "SemiColon", "Expect ';' after return value."),
               I0("Return"))])])])

\* Compiler::if_statement up to the then statement
if_statement(c, calls) ==
  With([c1 \in {consume(expression(consume(c, "LeftParen", "Expect '(' after 'if'.")),
                        "RightParen", "Expect ')' after condition.")} |->
  With([patch_loc \in {emit_jump(c1, I1("JumpFwdIfFalse", U16_MAX))} |->
     [c |-> emit_pop(patch_loc.c),
      calls |-> calls \o <<Call("if_statement then", patch_loc.r, 0), Call("statement", 0, 0)>>]])])

\* Compiler::if_statement from the end of the then statement
if_statement_then(c, calls, patch_loc) ==
  With([else_patch_loc \in {emit_jump(c, I1("JumpForward", U16_MAX))} |->
  With([el \in {match_tt(patch_fwd_jump(else_patch_loc.c, patch_loc), "Else")} |->
     IF el.r
     THEN [c |-> emit_pop(el.c),
           calls |-> calls \o <<Call("if_statement else", else_patch_loc.r, 0),
                                Call("statement", 0, 0)>>]
     ELSE [c |-> patch_fwd_jump(el.c, else_patch_loc.r), calls |-> calls]])])

\* Compiler::if_statement from the end of the else statement
if_statement_else(c, calls, else_patch_loc) ==
  [c |-> patch_fwd_jump(c, else_patch_loc), calls |-> calls]

\* Compiler::while_statement up to the body
while_statement(c, calls) ==
  With([loop_jump \in {next_byte_index(c)} |->
  With([c1 \in {consume(expression(consume(c, "LeftParen", "Expect '(' after 'while'.")),
                        "RightParen", "Expect ')' after condition.")} |->
  With([exit_jump \in {emit_jump(c1, I1("JumpFwdIfFalse", U16_MAX))} |->
     [c |-> emit_pop(exit_jump.c),
      calls |-> calls \o <<Call("while_statement", loop_jump, exit_jump.r),
                           Call("statement", 0, 0)>>]])])])

\* Compiler::while_statement from the end of the body
while_statement_body(c, calls, loop_jump, exit_jump) ==
  [c |-> emit_pop(patch_fwd_jump(emit_back_jump(c, loop_jump), exit_jump)),
   calls |-> calls]

\* Compiler::for_statement up to the end of the initializer clause
for_statement(c, calls) ==
  With([c1 \in {begin_scope(consume(c, "LeftParen", "Expect '(' after 'for'."))} |->
  With([semi1 \in {match_tt(c1, "SemiColon")} |->
  With([var \in {match_tt(semi1.c, "Var")} |->
  With([c2 \in {IF semi1.r THEN semi1.c
                ELSE IF var.r THEN var_declaration(var.c)
                ELSE expression_statement(var.c)} |->
     [c |-> c2, calls |-> Append(calls, Call("for_statement initializer", 0, 0))]])])])])

\* Compiler::for_statement from the end of the initializer clause up to
\* the body; an exit_jump of -1 stands for None
for_statement_initializer(c2, calls) ==
  With([condition_start \in {next_byte_index(c2)} |->
  With([semi2 \in {match_tt(c2, "SemiColon")} |->
  With([cond \in {emit_jump(consume(expression(semi2.c), "SemiColon",
                                    "Expect ';' after loop condition."),
                            I1("JumpFwdIfFalse", U16_MAX))} |->
  With([exit_jump \in {IF semi2.r THEN -1 ELSE cond.r} |->
  With([c3 \in {IF semi2.r THEN semi2.c ELSE emit_pop(cond.c)} |->
  With([body_start \in {emit_jump(c3, I1("JumpForward", U16_MAX))} |->
  With([rp \in {match_tt(body_start.c, "RightParen")} |->
  With([post_body \in {IF rp.r THEN condition_start ELSE next_byte_index(rp.c)} |->
  With([c4 \in {IF rp.r THEN rp.c
                ELSE emit_back_jump(
                       consume(emit_pop(expression(rp.c)), "RightParen",
                               "Expect ')' after for clauses."),
                       condition_start)} |->
     [c |-> patch_fwd_jump(c4, body_start.r),
      calls |-> calls \o <<Call("for_statement", post_body, exit_jump),
                           Call("statement", 0, 0)>>]])])])])])])])])])

\* Compiler::for_statement from the end of the body
for_statement_body(c, calls, post_body, exit_jump) ==
  With([c5 \in {emit_back_jump(c, post_body)} |->
  With([c6 \in {IF exit_jump # -1 THEN emit_pop(patch_fwd_jump(c5, exit_jump)) ELSE c5} |->
     [c |-> end_scope(c6), calls |-> calls]])])

\* Compiler::statement; for a block, up to the block
statement(c, calls) ==
  IF check(c, "Print") THEN [c |-> print_statement(advance(c)), calls |-> calls]
  ELSE IF check(c, "If") THEN if_statement(advance(c), calls)
  ELSE IF check(c, "Return") THEN [c |-> return_statement(advance(c)), calls |-> calls]
  ELSE IF check(c, "While") THEN while_statement(advance(c), calls)
  ELSE IF check(c, "For") THEN for_statement(advance(c), calls)
  ELSE IF check(c, "LeftBrace")
       THEN [c |-> begin_scope(advance(c)),
             calls |-> calls \o <<Call("statement block", 0, 0), Call("block", 0, 0)>>]
  ELSE [c |-> emit_pop(consume(expression_statement(c), "SemiColon",
                               "Expect ';' after value.")),
        calls |-> calls]

\* Compiler::statement from the end of the block
statement_block(c, calls) == [c |-> end_scope(c), calls |-> calls]

\* Compiler::new_context pushed by Compiler::function
new_context(c, function_type) ==
  With([name \in {intern_string(c.heap, ToStr(c.tin.pre.description))} |->
     [c EXCEPT !.heap = name.h,
               !.ctx_stk = Append(c.ctx_stk, CompilerContextNew(function_type, name.ptr)),
               !.curr_ctx = c.curr_ctx + 1]])

\* the parameter loop of Compiler::function
RECURSIVE params_loop(_)
params_loop(c) ==
  With([c1 \in {[c EXCEPT !.ctx_stk[c.curr_ctx + 1].function.arity = @ + 1]} |->
  With([c2 \in {IF cctx(c1).function.arity > U8_MAX
                THEN error_at_current(c1, "Can't have more than 255 parameters.")
                ELSE c1} |->
  With([param_constant \in {parse_variable(c2, "Expect parameter name.")} |->
  With([comma \in {match_tt(define_variable(param_constant.c, param_constant.r), "Comma")} |->
     IF comma.r THEN params_loop(comma.c) ELSE comma.c])])])])

\* Compiler::function up to the body
function(c, function_type, calls) ==
  With([c1 \in {consume(begin_scope(new_context(c, function_type)),
                        "LeftParen", "Expect '(' after function name.")} |->
  With([c2 \in {IF ~check(c1, "RightParen") THEN params_loop(c1) ELSE c1} |->
  With([c3 \in {consume(consume(c2, "RightParen", "Expect ')' after parameters."),
                        "LeftBrace", "Expect '{' before function body.")} |->
     [c |-> c3, calls |-> calls \o <<Call("function", 0, 0), Call("block", 0, 0)>>]])])])

\* Compiler::function from the end of the body
function_body(c, calls) ==
  With([func_ptr \in {end_compile(c)} |->
  With([func_index \in {make_constant(func_ptr.c,
                                      ObjV("Function", IF func_ptr.r # -1 THEN func_ptr.r ELSE 0))} |->
     [c |-> emit_instruction(func_index.c, I1("Closure", func_index.r)), calls |-> calls]])])

\* Compiler::fun_declaration up to the function's body
fun_declaration(c, calls) ==
  With([global \in {parse_variable(c, "Expect function name.")} |->
     function(mark_initialized(global.c), "Function",
              Append(calls, Call("fun_declaration", global.r, 0)))])

\* Compiler::fun_declaration from the end of function
fun_declaration_function(c, calls, global) ==
  [c |-> define_variable(c, global), calls |-> calls]

\* Compiler::method up to the function's body
method(c, calls) ==
  With([c1 \in {consume(c, "Identifier", "Expect method name.")} |->
  With([name_in \in {make_identifier(c1)} |->
  With([function_type \in {IF name_in.c.tin.pre.description = NameInit
                           THEN "Initializer" ELSE "Method"} |->
     function(name_in.c, function_type, Append(calls, Call("method", name_in.r, 0)))])])])

\* Compiler::method from the end of function
method_function(c, calls, name_in) ==
  [c |-> emit_instruction(c, I1("Method", name_in)), calls |-> calls]

\* a variant of the superclass clause that loads the subclass before the
\* superclass
superclass_clause_subclass_first(c, class_name) ==
  With([c1 \in {consume(c, "Identifier", "Expect superclass name.")} |->
  With([c2 \in {define_variable(add_specified_local(begin_scope(c1), NameSuper), 0)} |->
  With([c3 \in {named_variable(c2, class_name, FALSE)} |->
  With([c4 \in {IF class_name = c3.tin.pre.description
                THEN error_at_previous(c3, "A class can't inherit from itself.")
                ELSE c3} |->
  With([c5 \in {emit_instruction(variable(c4, FALSE), I0("Inherit"))} |->
     [c5 EXCEPT !.class_ctxs[Len(c5.class_ctxs)].has_superclass = TRUE]])])])])])

\* the superclass clause of Compiler::class_declaration
superclass_clause(c, class_name) ==
  With([c1 \in {consume(c, "Identifier", "Expect superclass name.")} |->
  With([c2 \in {define_variable(add_specified_local(begin_scope(c1), NameSuper), 0)} |->
  With([c3 \in {variable(c2, FALSE)} |->
  With([c4 \in {IF class_name = c3.tin.pre.description
                THEN error_at_previous(c3, "A class can't inherit from itself.")
                ELSE c3} |->
  With([c5 \in {emit_instruction(named_variable(c4, class_name, FALSE), I0("Inherit"))} |->
     [c5 EXCEPT !.class_ctxs[Len(c5.class_ctxs)].has_superclass = TRUE]])])])])])

\* Compiler::class_declaration up to the loop over the methods
class_declaration(c, calls) ==
  With([c1 \in {consume(c, "Identifier", "Expect class name.")} |->
  With([class_name_in \in {make_identifier(c1)} |->
  With([c2 \in {define_variable(
                  emit_instruction(declare_variable(class_name_in.c),
                                   I1("Class", class_name_in.r)),
                  class_name_in.r)} |->
  With([class_name \in {c2.tin.pre.description} |->
  With([c3 \in {[c2 EXCEPT !.class_ctxs =
                             Append(c2.class_ctxs,
                                    [name |-> class_name, has_superclass |-> FALSE])]} |->
  With([less \in {match_tt(c3, "Less")} |->
  With([c4 \in {IF less.r THEN superclass_clause(less.c, class_name) ELSE less.c} |->
  With([c5 \in {consume(named_variable(c4, class_name, FALSE),
                        "LeftBrace", "Expect '{' before class body.")} |->
     [c |-> c5, calls |-> Append(calls, Call("class_declaration", 0, 0))]])])])])])])])])

\* Compiler::class_declaration from the test of the loop over the methods
class_declaration_methods(c, calls) ==
  IF ~check(c, "RightBrace") /\ ~check(c, "EOF")
  THEN method(c, Append(calls, Call("class_declaration", 0, 0)))
  ELSE With([c6 \in {emit_pop(consume(c, "RightBrace", "Expect '}' after class body."))} |->
       With([c7 \in {IF Last(c6.class_ctxs).has_superclass THEN end_scope(c6) ELSE c6} |->
          [c |-> [c7 EXCEPT !.class_ctxs = Front(c7.class_ctxs)], calls |-> calls]])])

\* the exits of the loop of Compiler::synchronize
synchronize_done(c) ==
  \/ c.tin.cur.kind = "EOF"
  \/ c.tin.pre.kind = "SemiColon"
  \/ c.tin.cur.kind \in {"Class", "Fun", "Var", "For", "If", "While", "Print", "Return"}

\* at most k turns of the loop, halved so that a long run of skipped tokens
\* does not nest the evaluation as deep as it is long
RECURSIVE synchronize_turns(_, _)
synchronize_turns(c, k) ==
  IF synchronize_done(c) \/ k = 0 THEN c
  ELSE IF k = 1 THEN advance(c)
  ELSE synchronize_turns(synchronize_turns(c, k \div 2), k - k \div 2)

\* every turn takes one token
synchronize_loop(c) == synchronize_turns(c, Len(c.scanner.toks) + 1)

\* Compiler::synchronize; syncs counts its runs
synchronize(c) ==
  synchronize_loop([c EXCEPT !.ctx_stk[c.curr_ctx + 1].errh.panic_mode = FALSE,
                             !.syncs = @ + 1])

\* Compiler::declaration up to the first declaration or statement the
\* declaration encloses
declaration(c, calls) ==
  With([calls1 \in {Append(calls, Call("declaration", 0, 0))} |->
  IF check(c, "Var") THEN [c |-> var_declaration(advance(c)), calls |-> calls1]
  ELSE IF check(c, "Fun") THEN fun_declaration(advance(c), calls1)
  ELSE IF check(c, "Class") THEN class_declaration(advance(c), calls1)
  ELSE statement(c, calls1)])

\* Compiler::declaration from the end of what it called
declaration_end(c, calls) ==
  [c |-> IF cctx(c).errh.panic_mode THEN synchronize(c) ELSE c, calls |-> calls]

\* Compiler::block from the test of its loop
block(c, calls) ==
  IF ~check(c, "RightBrace") /\ ~check(c, "EOF")
  THEN declaration(c, Append(calls, Call("block", 0, 0)))
  ELSE [c |-> consume(c, "RightBrace", "Expect '}' after block."), calls |-> calls]

\* Compiler::compile from the test of its loop
compile(c, calls) ==
  With([eof \in {match_tt(c, "EOF")} |->
  IF ~eof.r THEN declaration(eof.c, Append(calls, Call("compile", 0, 0)))
  ELSE [c |-> eof.c, calls |-> calls]])

\* the innermost call of the compiler runs on
resume(c, calls) ==
  With([top \in {Last(calls)} |->
  With([rest \in {Front(calls)} |->
     CASE top.f = "compile" -> compile(c, rest)
       [] top.f = "declaration" -> declaration_end(c, rest)
       [] top.f = "block" -> block(c, rest)
       [] top.f = "statement" -> statement(c, rest)
       [] top.f = "statement block" -> statement_block(c, rest)
       [] top.f = "if_statement then" -> if_statement_then(c, rest, top.a)
       [] top.f = "if_statement else" -> if_statement_else(c, rest, top.a)
       [] top.f = "while_statement" -> while_statement_body(c, rest, top.a, top.b)
       [] top.f = "for_statement initializer" -> for_statement_initializer(c, rest)
       [] top.f = "for_statement" -> for_statement_body(c, rest, top.a, top.b)
       [] top.f = "function" -> function_body(c, rest)
       [] top.f = "fun_declaration" -> fun_declaration_function(c, rest, top.a)
       [] top.f = "method" -> method_function(c, rest, top.a)
       [] top.f = "class_declaration" -> class_declaration_methods(c, rest)])])

(* ------------------------------------------------------------------ *)
(* The VM's memory (vm.rs).  A machine s holds the heap, the Vm's      *)
(* fields, what has been printed and how run ended.  The stack Vec     *)
(* never moves; spare is the part of its buffer past len, where the    *)
(* values popped last are still written.                               *)
(* ------------------------------------------------------------------ *)
\* what a freed block or a slot never written reads as
Freed ==
  [k |-> "Freed", marked |-> FALSE, addr |-> 0, val |-> <<>>, chunk |-> ChunkNew,
   name |-> 0, arity |-> 0, upvalues |-> <<>>, function |-> 0, open |-> FALSE,
   slot |-> 0, value |-> NilV, class |-> 0, fields |-> EmptyMap,
   methods |-> EmptyMap, cap |-> 0, method |-> 0, receiver |-> NilV,
   callable |-> ""]

UninitV == [t |-> "Uninit", v |-> 0]

\* Gc::as_obj: the object behind a handle
Obj(store, ptr) == IF ptr \in DOMAIN store THEN store[ptr] ELSE Freed

\* reading the Value at a stack address
MemRead(vm, slot) ==
  IF slot < Len(vm.stack) THEN vm.stack[slot + 1]
  ELSE IF slot - Len(vm.stack) < Len(vm.spare) THEN vm.spare[slot - Len(vm.stack) + 1]
  ELSE UninitV

\* writing a Value at a stack address
MemWrite(vm, slot, value) ==
  IF slot < Len(vm.stack) THEN [vm EXCEPT !.stack[slot + 1] = value]
  ELSE IF slot - Len(vm.stack) < Len(vm.spare)
       THEN [vm EXCEPT !.spare[slot - Len(vm.stack) + 1] = value]
  ELSE vm

\* Vec::push on the stack
Push(vm, value) ==
  [vm EXCEPT !.stack = Append(vm.stack, value),
             !.spare = IF vm.spare = <<>> THEN <<>> ELSE Tail(vm.spare)]

\* Vec::truncate on the stack: the values stay written past len
StackTruncate(vm, n) ==
  IF n >= Len(vm.stack) THEN vm
  ELSE [vm EXCEPT !.stack = SubSeq(vm.stack, 1, n),
                  !.spare = SubSeq(vm.stack, n + 1, Len(vm.stack)) \o vm.spare]

\* Vec::pop on the stack
Pop(vm) == StackTruncate(vm, Len(vm.stack) - 1)

\* PeekFromTop::peek
Peek(vm, distance) ==
  IF distance < Len(vm.stack) THEN vm.stack[Len(vm.stack) - distance] ELSE UninitV

\* Upvalue::as_ref: the value behind the upvalue's location
UpvalueRead(vm, o) == IF o.open THEN MemRead(vm, o.slot) ELSE o.value

(* ------------------------------------------------------------------ *)
(* Mark and sweep (heap.rs, Trace impls of object.rs).  A marking      *)
(* state g holds the store with its mark bits and the grey stack.      *)
(* ------------------------------------------------------------------ *)
\* Gc::mark_if_needed
mark_if_needed(g, ptr) ==
  IF ptr \in DOMAIN g.store /\ ~g.store[ptr].marked
  THEN [g EXCEPT !.store[ptr].marked = TRUE, !.grey_stack = Append(g.grey_stack, ptr)]
  ELSE g

\* Value::mark_if_needed
value_mark_if_needed(g, value) ==
  IF IsObjV(value) THEN mark_if_needed(g, value.v) ELSE g

\* for handle in handles.iter() { handle.mark_if_needed(..) }: the
\* handles not yet marked are marked and pushed, each once, in order
mark_handles(g, handles) ==
  With([firsts \in {SelectSeq([i \in 1..Len(handles) |-> i],
                              LAMBDA i : /\ handles[i] \in DOMAIN g.store
                                         /\ ~g.store[handles[i]].marked
                                         /\ \A j \in 1..(i - 1) : handles[j] # handles[i])} |->
  With([fresh \in {[n \in 1..Len(firsts) |-> handles[firsts[n]]]} |->
  With([newly \in {{fresh[n] : n \in 1..Len(fresh)}} |->
     [store |-> [p \in DOMAIN g.store |->
                   IF p \in newly THEN [g.store[p] EXCEPT !.marked = TRUE] ELSE g.store[p]],
      grey_stack |-> g.grey_stack \o fresh]])])])

\* for value in values.iter() { value.mark_if_needed(..) }
mark_values(g, values) ==
  With([objs \in {SelectSeq(values, IsObjV)} |->
     mark_handles(g, [i \in 1..Len(objs) |-> objs[i].v])])

\* the order a HashMap is iterated in: here by handle
KeysInOrder(map) ==
  [i \in 1..Cardinality(DOMAIN map) |->
     CHOOSE key \in DOMAIN map : Cardinality({x \in DOMAIN map : x < key}) = i - 1]

\* for (k, v) in map.iter() { k.mark_if_needed(..); v.mark_if_needed(..) }
mark_entries(g, map) ==
  With([keys \in {KeysInOrder(map)} |->
     mark_values(g, [i \in 1..(2 * Len(keys)) |->
                       IF i % 2 = 1 THEN ObjV("String", keys[(i + 1) \div 2])
                       ELSE map[keys[i \div 2]]])])

\* a variant of trace in which a closure does not mark its upvalues
trace_without_upvalues(g, vm, ptr) ==
  With([o \in {Obj(g.store, ptr)} |->
  CASE o.k = "LoxFun" -> mark_values(mark_if_needed(g, o.name), o.chunk.values)
    [] o.k = "Upvalue" -> value_mark_if_needed(g, UpvalueRead(vm, o))
    [] o.k = "LoxClosure" -> mark_if_needed(g, o.function)
    [] o.k = "LoxClass" -> mark_entries(mark_if_needed(g, o.name), o.methods)
    [] o.k = "LoxInstance" ->
         mark_entries(mark_if_needed(g, o.class), o.fields)
    [] o.k = "LoxBoundMethod" -> value_mark_if_needed(mark_if_needed(g, o.method), o.receiver)
    [] OTHER -> g])

\* Trace::trace of the object behind ptr
trace(g, vm, ptr) ==
  With([o \in {Obj(g.store, ptr)} |->
  CASE o.k = "LoxFun" -> mark_values(mark_if_needed(g, o.name), o.chunk.values)
    [] o.k = "Upvalue" -> value_mark_if_needed(g, UpvalueRead(vm, o))
    [] o.k = "LoxClosure" -> mark_handles(mark_if_needed(g, o.function), o.upvalues)
    [] o.k = "LoxClass" -> mark_entries(mark_if_needed(g, o.name), o.methods)
    [] o.k = "LoxInstance" ->
         mark_entries(mark_if_needed(g, o.class), o.fields)
    [] o.k = "LoxBoundMethod" -> value_mark_if_needed(mark_if_needed(g, o.method), o.receiver)
    [] OTHER -> g])

\* a variant of mark_roots that leaves the value stack out
mark_roots_without_stack(g, vm) ==
  With([g1 \in {mark_handles(g, [i \in 1..Len(vm.call_frames) |-> vm.call_frames[i].closure])} |->
  With([g2 \in {mark_handles(g1, vm.open_upvalues)} |->
  With([g4 \in {mark_entries(g2, vm.globals)} |->
     mark_if_needed(g4, vm.class_init_method)])])])

\* Heap::mark_roots
mark_roots(g, vm) ==
  With([g1 \in {mark_handles(g, [i \in 1..Len(vm.call_frames) |-> vm.call_frames[i].closure])} |->
  With([g2 \in {mark_handles(g1, vm.open_upvalues)} |->
  With([g3 \in {mark_values(g2, vm.stack)} |->
  With([g4 \in {mark_entries(g3, vm.globals)} |->
     mark_if_needed(g4, vm.class_init_method)])])])])

\* the loop of Heap::mark_heap
RECURSIVE mark_loop(_, _)
mark_loop(g, vm) ==
  IF g.grey_stack = <<>> THEN g
  ELSE mark_loop(trace([g EXCEPT !.grey_stack = Front(g.grey_stack)], vm,
                       Last(g.grey_stack)),
                 vm)

\* Heap::mark_heap
mark_heap(h, vm) == mark_loop(mark_roots([store |-> h.store, grey_stack |-> <<>>], vm), vm)

\* a variant of sweep_heap that leaves the interned strings out of the count
sweep_heap_counting_objects_only(h, marked_store) ==
  With([objects \in {SelectSeq(h.objects, LAMBDA p : marked_store[p].marked)} |->
  With([strs \in {{str \in DOMAIN h.interned_strs : marked_store[h.interned_strs[str]].marked}} |->
  With([kept \in {{objects[i] : i \in 1..Len(objects)} \cup {h.interned_strs[str] : str \in strs}} |->
  With([store \in {[p \in kept |-> [marked_store[p] EXCEPT !.marked = FALSE]]} |->
     [h EXCEPT !.objects = objects,
               !.interned_strs = [str \in strs |-> h.interned_strs[str]],
               !.store = store,
               !.bytes_allocated =
                  SumOver({objects[i] : i \in 1..Len(objects)},
                          [p \in kept |-> bytes_allocated_of(store[p])])]])])])])

\* Heap::sweep_heap on the store as marking left it
sweep_heap(h, marked_store) ==
  With([objects \in {SelectSeq(h.objects, LAMBDA p : marked_store[p].marked)} |->
  With([strs \in {{str \in DOMAIN h.interned_strs : marked_store[h.interned_strs[str]].marked}} |->
  With([kept \in {{objects[i] : i \in 1..Len(objects)} \cup {h.interned_strs[str] : str \in strs}} |->
  With([store \in {[p \in kept |-> [marked_store[p] EXCEPT !.marked = FALSE]]} |->
     [h EXCEPT !.objects = objects,
               !.interned_strs = [str \in strs |-> h.interned_strs[str]],
               !.store = store,
               !.bytes_allocated =
                  SumOver(kept, [p \in kept |-> bytes_allocated_of(store[p])])]])])])])

\* a variant of collect_garbage that takes twice the surviving bytes as the
\* next threshold, however small
collect_garbage_without_floor(h, vm) ==
  With([swept \in {sweep_heap(h, mark_heap(h, vm).store)} |->
     [swept EXCEPT !.next_gc = swept.bytes_allocated * GC_HEAP_GROWTH_FACTOR]])

\* Heap::collect_garbage
collect_garbage(h, vm) ==
  With([swept \in {sweep_heap(h, mark_heap(h, vm).store)} |->
     [swept EXCEPT !.next_gc =
                      Max(INITIAL_NEXT_GC, swept.bytes_allocated * GC_HEAP_GROWTH_FACTOR)]])

\* Heap::collect_if_needed; the build feature debug_stress_gc is s.stress
collect_if_needed(s) ==
  With([h1 \in {IF s.stress THEN collect_garbage(s.heap, s.vm) ELSE s.heap} |->
  With([h2 \in {IF h1.bytes_allocated > h1.next_gc THEN collect_garbage(h1, s.vm) ELSE h1} |->
     [s EXCEPT !.heap = h2, !.collections = @ + (IF s.stress THEN 1 ELSE 0)
                                              + (IF h1.bytes_allocated > h1.next_gc THEN 1 ELSE 0)]])])

\* Heap::manage_gc
manage_gc(s, o) ==
  With([s1 \in {collect_if_needed(s)} |->
  With([m \in {manage(s1.heap, o)} |->
     [s |-> [s1 EXCEPT !.heap = m.h], ptr |-> m.ptr]])])

\* Heap::intern_string_gc
intern_string_gc(s, str_ref) ==
  With([s1 \in {collect_if_needed(s)} |->
  With([m \in {intern_string(s1.heap, str_ref)} |->
     [s |-> [s1 EXCEPT !.heap = m.h], ptr |-> m.ptr]])])

(* ------------------------------------------------------------------ *)
(* The VM (vm.rs).                                                     *)
(* ------------------------------------------------------------------ *)
FRAMES_MIN_SIZE == 64

\* the fields of heap objects other than strings and functions
UpvalueNew(slot) ==
  [k |-> "Upvalue", marked |-> FALSE, addr |-> 0, open |-> TRUE, slot |-> slot,
   value |-> NilV]

LoxClosureNew(fun_ptr) ==
  [k |-> "LoxClosure", marked |-> FALSE, addr |-> 0, function |-> fun_ptr,
   upvalues |-> <<>>]

LoxClassNew(name) ==
  [k |-> "LoxClass", marked |-> FALSE, addr |-> 0, name |-> name,
   methods |-> EmptyMap, cap |-> 0]

LoxInstanceNew(class) ==
  [k |-> "LoxInstance", marked |-> FALSE, addr |-> 0, class |-> class,
   fields |-> EmptyMap, cap |-> 0]

LoxBoundMethodNew(method_ptr, receiver) ==
  [k |-> "LoxBoundMethod", marked |-> FALSE, addr |-> 0, method |-> method_ptr,
   receiver |-> receiver]

LoxNativeFunNew(callable) ==
  [k |-> "LoxNativeFun", marked |-> FALSE, addr |-> 0, callable |-> callable]

\* Display for LoxFun: "<name arity>"
DisplayFun(store, fun_ptr) ==
  With([f \in {Obj(store, fun_ptr)} |->
  StrCat(StrCat(ToStr(<<"<">>), Obj(store, f.name).val),
         ToStr(<<" ">> \o NumToChars(f.arity) \o <<">">>))])

\* Display for Value; a class or an instance shows as its Gc handle's
\* Debug text, which is the address
Display(store, value) ==
  CASE value.t = "Nil" -> ToStr(<<"n", "i", "l">>)
    [] value.t = "Number" -> ToStr(NumToChars(value.v))
    [] value.t = "Boolean" ->
         IF value.v = 1 THEN ToStr(<<"t", "r", "u", "e">>)
         ELSE ToStr(<<"f", "a", "l", "s", "e">>)
    [] value.t = "String" -> Obj(store, value.v).val
    [] value.t = "Function" -> DisplayFun(store, value.v)
    [] value.t = "NativeFunction" -> ToStr(<<"<", "n", "a", "t", "i", "v", "e", " ", "f", "n", ">">>)
    [] value.t = "Closure" -> DisplayFun(store, Obj(store, value.v).function)
    [] value.t \in {"Class", "Instance"} ->
         ToStr(<<"G", "c", " ", "{", " ", "p", "t", "r", ":", " ">>
               \o NumToChars(Obj(store, value.v).addr) \o <<" ", "}">>)
    [] value.t = "BoundMethod" ->
         DisplayFun(store, Obj(store, Obj(store, value.v).method).function)
    [] OTHER -> <<>>

\* is_falsey
is_falsey(value) == value.t = "Nil" \/ (value.t = "Boolean" /\ value.v = 0)

\* the free function runtime_error with Vm::runtime_error: the message
\* goes to stderr, the flag is set, the frames above the script's dropped
runtime_error(s, message) ==
  [s EXCEPT !.stderr = Append(s.stderr, message),
            !.vm.had_runtime_error = TRUE,
            !.vm.call_frames = Truncate(s.vm.call_frames, 1)]

\* a Rust panic (index out of bounds, unwrap of None, an explicit panic!)
Panic(s) == [s EXCEPT !.result = "Panic"]

\* the frame run() is executing, its closure's function and chunk
CurFrame(s) == Last(s.vm.call_frames)

FrameChunk(s, frame) ==
  Obj(s.heap.store, Obj(s.heap.store, frame.closure).function).chunk

\* Upvalue::value_ptr compared with the address of a stack slot: an open
\* upvalue points into the stack, a closed one at itself in the heap
PtrEq(s, o, slot) == o.open /\ o.slot = slot

PtrLess(s, o, slot) == IF o.open THEN o.slot < slot ELSE s.stack_above

\* Vm::close_upvalues: the new length after the reverse scan
RECURSIVE close_scan(_, _, _, _)
close_scan(s, stack_in, index, new_size) ==
  IF index < 0 THEN [s |-> s, new_size |-> new_size]
  ELSE With([ptr \in {s.vm.open_upvalues[index + 1]} |->
       With([o \in {Obj(s.heap.store, ptr)} |->
          IF ~PtrLess(s, o, stack_in)
          THEN close_scan([s EXCEPT !.heap.store[ptr].value = UpvalueRead(s.vm, o),
                                    !.heap.store[ptr].open = FALSE],
                          stack_in, index - 1, new_size)
          ELSE close_scan(s, stack_in, index - 1, index + 1)])])

\* Vm::close_upvalues
close_upvalues(s, stack_in) ==
  IF stack_in >= Len(s.vm.stack) THEN Panic(s)
  ELSE With([n \in {Len(s.vm.open_upvalues)} |->
       With([r \in {close_scan(s, stack_in, n - 1, n)} |->
          [r.s EXCEPT !.vm.open_upvalues = Truncate(r.s.vm.open_upvalues, r.new_size)]])])

\* the reverse scan of Vm::capture_upvalue: the upvalue found (or 0)
\* and the index to insert a new one at
RECURSIVE capture_scan(_, _, _)
capture_scan(s, slot, index) ==
  IF index < 0 THEN [found |-> 0, insert_index |-> 0]
  ELSE With([o \in {Obj(s.heap.store, s.vm.open_upvalues[index + 1])} |->
       IF PtrEq(s, o, slot) THEN [found |-> s.vm.open_upvalues[index + 1], insert_index |-> 0]
       ELSE IF PtrLess(s, o, slot) THEN [found |-> 0, insert_index |-> index + 1]
       ELSE capture_scan(s, slot, index - 1)])

\* Vec::insert
InsertAt(seq, index, x) ==
  SubSeq(seq, 1, index) \o <<x>> \o SubSeq(seq, index + 1, Len(seq))

\* a variant of Vm::capture_upvalue that puts a new upvalue at the front of
\* the list
capture_upvalue_inserting_first(s, slot) ==
  With([scan \in {capture_scan(s, slot, Len(s.vm.open_upvalues) - 1)} |->
  IF scan.found # 0 THEN [s |-> s, ptr |-> scan.found]
  ELSE With([m \in {manage_gc(s, UpvalueNew(slot))} |->
          [s |-> [m.s EXCEPT !.vm.open_upvalues = InsertAt(m.s.vm.open_upvalues, 0, m.ptr)],
           ptr |-> m.ptr]])])

\* Vm::capture_upvalue
capture_upvalue(s, slot) ==
  With([scan \in {capture_scan(s, slot, Len(s.vm.open_upvalues) - 1)} |->
  IF scan.found # 0 THEN [s |-> s, ptr |-> scan.found]
  ELSE With([m \in {manage_gc(s, UpvalueNew(slot))} |->
          [s |-> [m.s EXCEPT !.vm.open_upvalues =
                                InsertAt(m.s.vm.open_upvalues, scan.insert_index, m.ptr)],
           ptr |-> m.ptr]])])

\* a variant of Vm::call without the comparison of arg_count with the arity
call_closure_without_arity_test(s, closure_ptr, arg_count) ==
  IF Len(s.vm.call_frames) = FRAMES_MIN_SIZE
  THEN [s |-> runtime_error(s, "Stack overflow."), ok |-> FALSE]
  ELSE [s |-> [s EXCEPT !.vm.call_frames =
                           Append(s.vm.call_frames,
                                  [closure |-> closure_ptr, ip |-> 0,
                                   frame_index |-> Len(s.vm.stack) - arg_count - 1])],
        ok |-> TRUE]

\* Vm::call
call_closure(s, closure_ptr, arg_count) ==
  With([fun \in {Obj(s.heap.store, Obj(s.heap.store, closure_ptr).function)} |->
  IF arg_count # fun.arity
  THEN [s |-> runtime_error(s, "Expected {} arguments but got {}."), ok |-> FALSE]
  ELSE IF Len(s.vm.call_frames) = FRAMES_MIN_SIZE
       THEN [s |-> runtime_error(s, "Stack overflow."), ok |-> FALSE]
  ELSE [s |-> [s EXCEPT !.vm.call_frames =
                           Append(s.vm.call_frames,
                                  [closure |-> closure_ptr, ip |-> 0,
                                   frame_index |-> Len(s.vm.stack) - arg_count - 1])],
        ok |-> TRUE]])

\* Peekable::next on the ip of frame number idx (1-based), if that frame
\* is still there
ip_next(s, idx) ==
  IF idx > Len(s.vm.call_frames) \/ idx < 1 THEN s
  ELSE With([frame \in {s.vm.call_frames[idx]} |->
       With([code \in {FrameChunk(s, frame).code} |->
          IF frame.ip >= Len(code) THEN s
          ELSE [s EXCEPT !.vm.call_frames[idx].ip = Decode(code, frame.ip).next]])])

\* NativeFun::call for ClockNative and ValueToStrConverter
native_call(s, callable, arg_count, stack_window) ==
  IF callable = "clock" THEN [h |-> s.heap, value |-> NumberV(s.clock)]
  ELSE With([m \in {intern_string(s.heap,
                                  IF arg_count < 1 THEN <<>>
                                  ELSE Display(s.heap.store, stack_window[1]))} |->
          [h |-> m.h, value |-> ObjV("String", m.ptr)]])

\* HashMap::get
MapGet(map, key) == IF key \in DOMAIN map THEN map[key] ELSE UninitV

\* a variant of Vm::call_value that leaves the class in the callee slot
call_value_keeping_class(s, callee, arg_count) ==
  With([len \in {Len(s.vm.stack)} |->
  CASE callee.t = "Closure" -> call_closure(s, callee.v, arg_count)
    [] callee.t = "NativeFunction" ->
         With([frame_index \in {len - arg_count} |->
         With([res \in {native_call(s, Obj(s.heap.store, callee.v).callable, arg_count,
                                    SubSeq(s.vm.stack, frame_index + 1, len))} |->
         With([s1 \in {[s EXCEPT !.heap = res.h,
                                 !.vm = Push(StackTruncate(s.vm, frame_index - 1), res.value)]} |->
            [s |-> ip_next(s1, Len(s1.vm.call_frames)), ok |-> TRUE]])])])
    [] callee.t = "Class" ->
         With([m \in {manage_gc(s, LoxInstanceNew(callee.v))} |->
         With([s1 \in {m.s} |->
         With([methods \in {Obj(s1.heap.store, callee.v).methods} |->
            IF s1.vm.class_init_method \in DOMAIN methods
            THEN call_closure(s1, methods[s1.vm.class_init_method].v, arg_count)
            ELSE IF arg_count # 0
                 THEN [s |-> runtime_error(s1, "Expected 0 arguments but got {}"),
                       ok |-> FALSE]
            ELSE [s |-> ip_next(s1, Len(s1.vm.call_frames)), ok |-> TRUE]])])])
    [] callee.t = "BoundMethod" ->
         With([bound_method \in {Obj(s.heap.store, callee.v)} |->
         With([s1 \in {[s EXCEPT !.vm.stack[len - arg_count] = bound_method.receiver]} |->
            call_closure(s1, bound_method.method, arg_count)])])
    [] OTHER ->
         [s |-> runtime_error(s, "Can only call functions and classes."), ok |-> FALSE]])

\* Vm::call_value
call_value(s, callee, arg_count) ==
  With([len \in {Len(s.vm.stack)} |->
  CASE callee.t = "Closure" -> call_closure(s, callee.v, arg_count)
    [] callee.t = "NativeFunction" ->
         With([frame_index \in {len - arg_count} |->
         With([res \in {native_call(s, Obj(s.heap.store, callee.v).callable, arg_count,
                                    SubSeq(s.vm.stack, frame_index + 1, len))} |->
         With([s1 \in {[s EXCEPT !.heap = res.h,
                                 !.vm = Push(StackTruncate(s.vm, frame_index - 1), res.value)]} |->
            [s |-> ip_next(s1, Len(s1.vm.call_frames)), ok |-> TRUE]])])])
    [] callee.t = "Class" ->
         With([m \in {manage_gc(s, LoxInstanceNew(callee.v))} |->
         With([s1 \in {[m.s EXCEPT !.vm.stack[len - arg_count] = ObjV("Instance", m.ptr)]} |->
         With([methods \in {Obj(s1.heap.store, callee.v).methods} |->
            IF s1.vm.class_init_method \in DOMAIN methods
            THEN call_closure(s1, methods[s1.vm.class_init_method].v, arg_count)
            ELSE IF arg_count # 0
                 THEN [s |-> runtime_error(s1, "Expected 0 arguments but got {}"),
                       ok |-> FALSE]
            ELSE [s |-> ip_next(s1, Len(s1.vm.call_frames)), ok |-> TRUE]])])])
    [] callee.t = "BoundMethod" ->
         With([bound_method \in {Obj(s.heap.store, callee.v)} |->
         With([s1 \in {[s EXCEPT !.vm.stack[len - arg_count] = bound_method.receiver]} |->
            call_closure(s1, bound_method.method, arg_count)])])
    [] OTHER ->
         [s |-> runtime_error(s, "Can only call functions and classes."), ok |-> FALSE]])

\* Vm::perform_binary_op_plus
perform_binary_op_plus(s) ==
  With([lhs \in {Peek(s.vm, 1)} |->
  With([rhs \in {Peek(s.vm, 0)} |->
     IF lhs.t = "String" /\ rhs.t = "String"
     THEN With([m \in {intern_string_gc(s, StrCat(Obj(s.heap.store, lhs.v).val,
                                                  Obj(s.heap.store, rhs.v).val))} |->
             [m.s EXCEPT !.vm = Push(Pop(Pop(m.s.vm)), ObjV("String", m.ptr))]])
     ELSE IF lhs.t = "Number" /\ rhs.t = "Number"
     THEN [s EXCEPT !.vm = Push(Pop(Pop(s.vm)), NumberV(lhs.v + rhs.v))]
     ELSE runtime_error(s, "Operands must both be either numbers or strings")])])

\* the closures passed to perform_binary_op; a quotient that is not an
\* integer is outside the model's numbers and is truncated
binary_op(op, a, b) ==
  CASE op = "Greater" -> BooleanV(a > b)
    [] op = "Less" -> BooleanV(a < b)
    [] op = "Subtract" -> NumberV(a - b)
    [] op = "Multiply" -> NumberV(a * b)
    [] OTHER -> NumberV(IF b = 0 THEN 0 ELSE a \div b)

\* Vm::perform_binary_op_gen
perform_binary_op_gen(s, op) ==
  With([lhs \in {Peek(s.vm, 1)} |->
  With([rhs \in {Peek(s.vm, 0)} |->
     IF lhs.t = "Number" /\ rhs.t = "Number"
     THEN [s EXCEPT !.vm = Push(Pop(Pop(s.vm)), binary_op(op, lhs.v, rhs.v))]
     ELSE runtime_error(s, "Operands must both be either numbers.")])])

\* Heap::update_allocation around HashMap::insert on a class's methods
\* or an instance's fields
update_allocation_insert(s, ptr, field, key, value) ==
  With([o \in {Obj(s.heap.store, ptr)} |->
  With([map \in {MapInsert(o[field], key, value)} |->
  With([grown \in {[o EXCEPT ![field] = map,
                             !.cap = Max(o.cap, MapCapacity(Cardinality(DOMAIN map)))]} |->
  With([s1 \in {[s EXCEPT !.heap.store[ptr] = grown,
                          !.heap.bytes_allocated =
                             @ + bytes_allocated_of(grown) - bytes_allocated_of(o)]} |->
     collect_if_needed(s1)])])])])

\* Vm::define_method
define_method(s, str_ptr) ==
  With([method_val \in {Peek(s.vm, 0)} |->
  With([class \in {Peek(s.vm, 1)} |->
  With([s1 \in {update_allocation_insert(s, class.v, "methods", str_ptr, method_val)} |->
     [s1 EXCEPT !.vm = Pop(s1.vm)]])])])

\* Vm::bind_method
bind_method(s, class, method_name) ==
  With([methods \in {Obj(s.heap.store, class).methods} |->
  IF method_name \in DOMAIN methods
  THEN With([m \in {manage_gc(s, LoxBoundMethodNew(methods[method_name].v, Peek(s.vm, 0)))} |->
          [s |-> [m.s EXCEPT !.vm = Push(Pop(m.s.vm), ObjV("BoundMethod", m.ptr))],
           ok |-> TRUE]])
  ELSE [s |-> runtime_error(s, "Undefined property {}"), ok |-> FALSE]])

\* Vm::invoke_from_class
invoke_from_class(s, class, method_name, arg_count) ==
  With([methods \in {Obj(s.heap.store, class).methods} |->
  IF method_name \in DOMAIN methods
  THEN call_closure(s, methods[method_name].v, arg_count)
  ELSE [s |-> runtime_error(s, "Undefined property '{}'"), ok |-> FALSE]])

\* a variant of Vm::invoke that calls a field's value with the receiver left
\* in the callee's slot
invoke_keeping_receiver(s, method_name, arg_count) ==
  With([receiver \in {Peek(s.vm, arg_count)} |->
  IF receiver.t = "Instance"
  THEN With([instance \in {Obj(s.heap.store, receiver.v)} |->
       IF method_name \in DOMAIN instance.fields
       THEN call_value(s, instance.fields[method_name], arg_count)
       ELSE invoke_from_class(s, instance.class, method_name, arg_count)])
  ELSE [s |-> runtime_error(s, "Only instances have methods."), ok |-> FALSE]])

\* Vm::invoke
invoke(s, method_name, arg_count) ==
  With([receiver \in {Peek(s.vm, arg_count)} |->
  IF receiver.t = "Instance"
  THEN With([instance \in {Obj(s.heap.store, receiver.v)} |->
       IF method_name \in DOMAIN instance.fields
       THEN With([field_val \in {instance.fields[method_name]} |->
               call_value([s EXCEPT !.vm.stack[Len(s.vm.stack) - arg_count] = field_val],
                          field_val, arg_count)])
       ELSE invoke_from_class(s, instance.class, method_name, arg_count)])
  ELSE [s |-> runtime_error(s, "Only instances have methods."), ok |-> FALSE]])

\* check_equals: an answer, or a panic for two objects that are not strings
check_equals(store, lhs, rhs) ==
  IF lhs.t # rhs.t THEN [panic |-> FALSE, res |-> FALSE]
  ELSE IF lhs.t = "Nil" THEN [panic |-> FALSE, res |-> TRUE]
  ELSE IF lhs.t \in {"Boolean", "Number"} THEN [panic |-> FALSE, res |-> lhs.v = rhs.v]
  ELSE IF lhs.t = "String"
       THEN [panic |-> FALSE, res |-> Obj(store, lhs.v).val = Obj(store, rhs.v).val]
  ELSE [panic |-> TRUE, res |-> FALSE]

\* how an arm of run's match ends: falling out of the match to ip.next(),
\* `continue`, or a return from run
Next_(s) == [s |-> s, flow |-> "next"]
Continue_(s) == [s |-> s, flow |-> "continue"]
Return_(s, result) == [s |-> [s EXCEPT !.result = result], flow |-> "return"]
OkOrError(r) == IF r.ok THEN Continue_(r.s) ELSE Return_(r.s, "RuntimeError")

\* CallFrame::get_value; an index past the constants panics
HasValue(chunk, index) == index < Len(chunk.values)
get_value(chunk, index) == IF HasValue(chunk, index) THEN chunk.values[index + 1] ELSE UninitV

\* the loop over function.upvalues of the Closure arm
RECURSIVE closure_upvalues(_, _, _, _)
closure_upvalues(s, frame, sims, upvalues) ==
  IF sims = <<>> THEN [s |-> s, upvalues |-> upvalues]
  ELSE With([sim \in {Head(sims)} |->
       IF sim.kind = "Local"
       THEN With([m \in {capture_upvalue(s, frame.frame_index + sim.index)} |->
               closure_upvalues(m.s, frame, Tail(sims), Append(upvalues, m.ptr))])
       ELSE With([own \in {Obj(s.heap.store, frame.closure).upvalues} |->
               closure_upvalues(s, frame, Tail(sims),
                                Append(upvalues,
                                       IF sim.index < Len(own) THEN own[sim.index + 1] ELSE 0))])])

\* a variant of the Return arm that pushes the result on the stack as the
\* callee left it
exec_return_without_truncate(s, frame) ==
  With([result \in {Peek(s.vm, 0)} |->
  With([s1 \in {[s EXCEPT !.vm = Pop(s.vm), !.vm.call_frames = Front(s.vm.call_frames)]} |->
     IF Len(s1.vm.call_frames) = 0
     THEN Return_([s1 EXCEPT !.vm = Pop(s1.vm)], "Ok")
     ELSE With([s2 \in {close_upvalues(s1, frame.frame_index)} |->
             IF s2.result = "Panic" THEN Return_(s2, "Panic")
             ELSE Next_([s2 EXCEPT !.vm = Push(s2.vm, result)])])])])

\* Instruction::Return
exec_return(s, frame) ==
  With([result \in {Peek(s.vm, 0)} |->
  With([s1 \in {[s EXCEPT !.vm = Pop(s.vm), !.vm.call_frames = Front(s.vm.call_frames)]} |->
     IF Len(s1.vm.call_frames) = 0
     THEN Return_([s1 EXCEPT !.vm = Pop(s1.vm)], "Ok")
     ELSE With([s2 \in {close_upvalues(s1, frame.frame_index)} |->
             IF s2.result = "Panic" THEN Return_(s2, "Panic")
             ELSE Next_([s2 EXCEPT !.vm = Push(StackTruncate(s2.vm, frame.frame_index),
                                               result)])])])])

\* Instruction::Closure
exec_closure(s, frame, chunk, func_index) ==
  With([fun_val \in {get_value(chunk, func_index)} |->
  IF fun_val.t # "Function" THEN Return_(s, "Panic")
  ELSE With([m \in {manage_gc(s, LoxClosureNew(fun_val.v))} |->
       With([s1 \in {[m.s EXCEPT !.vm = Push(m.s.vm, ObjV("Closure", m.ptr))]} |->
       With([r \in {closure_upvalues(s1, frame, Obj(s1.heap.store, fun_val.v).upvalues, <<>>)} |->
          Next_([r.s EXCEPT !.heap.store[m.ptr].upvalues = r.upvalues])])])])])

\* Instruction::Inherit, which vm.rs does not carry: every entry of the
\* superclass's method table is copied into the subclass's.  The operands
\* are where Compiler::class_declaration puts them: the superclass in the
\* slot of the local super, the subclass above it; the subclass is popped
\* and the superclass stays as the local super.
exec_inherit(s) ==
  With([superclass \in {Peek(s.vm, 1)} |->
  With([subclass \in {Peek(s.vm, 0)} |->
     IF superclass.t # "Class" \/ subclass.t # "Class" THEN Return_(s, "Unmodelled")
     ELSE With([o \in {Obj(s.heap.store, subclass.v)} |->
          With([from \in {Obj(s.heap.store, superclass.v).methods} |->
          With([map \in {[x \in (DOMAIN o.methods) \cup (DOMAIN from) |->
                            IF x \in DOMAIN from THEN from[x] ELSE o.methods[x]]} |->
          With([grown \in {[o EXCEPT !.methods = map,
                                     !.cap = Max(o.cap, MapCapacity(Cardinality(DOMAIN map)))]} |->
          With([s1 \in {collect_if_needed(
                          [s EXCEPT !.heap.store[subclass.v] = grown,
                                    !.heap.bytes_allocated =
                                       @ + bytes_allocated_of(grown) - bytes_allocated_of(o)])} |->
             Next_([s1 EXCEPT !.vm = Pop(s1.vm)])])])])])])])])

\* Instruction::GetSuper, which vm.rs does not carry: the superclass is
\* popped and its method bound to the receiver under it
exec_get_super(s, method_name) ==
  With([superclass \in {Peek(s.vm, 0)} |->
     IF superclass.t # "Class" THEN Return_(s, "Unmodelled")
     ELSE With([r \in {bind_method([s EXCEPT !.vm = Pop(s.vm)], superclass.v, method_name)} |->
             IF r.ok THEN Next_(r.s) ELSE Return_(r.s, "RuntimeError")])])

\* Instruction::SuperInvoke, which vm.rs does not carry: the superclass is
\* popped and its method called on the receiver and the arguments under it
exec_super_invoke(s, method_name, arg_count) ==
  With([superclass \in {Peek(s.vm, 0)} |->
     IF superclass.t # "Class" THEN Return_(s, "Unmodelled")
     ELSE OkOrError(invoke_from_class([s EXCEPT !.vm = Pop(s.vm)], superclass.v,
                                      method_name, arg_count))])

\* Instruction::GetProperty
exec_get_property(s, prop_name) ==
  With([instance_value \in {Peek(s.vm, 0)} |->
  IF instance_value.t = "Instance"
  THEN With([instance \in {Obj(s.heap.store, instance_value.v)} |->
       IF prop_name \in DOMAIN instance.fields
       THEN Next_([s EXCEPT !.vm = Push(Pop(s.vm), instance.fields[prop_name])])
       ELSE With([r \in {bind_method(s, instance.class, prop_name)} |->
               IF r.ok THEN Next_(r.s) ELSE Return_(r.s, "RuntimeError")])])
  ELSE Return_(runtime_error(s, "Only instances have properties."), "RuntimeError")])

\* Instruction::SetProperty
exec_set_property(s, prop_name) ==
  With([instance_value \in {Peek(s.vm, 1)} |->
  With([set_value \in {Peek(s.vm, 0)} |->
     IF instance_value.t = "Instance"
     THEN With([s1 \in {update_allocation_insert(s, instance_value.v, "fields", prop_name,
                                                 set_value)} |->
             Next_([s1 EXCEPT !.vm = Push(Pop(Pop(s1.vm)), set_value)])])
     ELSE Return_(runtime_error(s, "Only instances have fields."), "RuntimeError")])])

\* a variant of the SetGlobal arm that keeps the entry it has inserted
exec_set_global_without_remove(s, var_name, value) ==
  With([s1 \in {[s EXCEPT !.vm.globals = MapInsert(s.vm.globals, var_name, value)]} |->
     IF var_name \in DOMAIN s.vm.globals THEN Next_(s1)
     ELSE Return_(runtime_error(s1, "Undefined variable '{}'."), "RuntimeError")])

\* Instruction::SetGlobal: HashMap::insert returns None when the key had no
\* entry, and the entry just made is removed again
exec_set_global(s, var_name, value) ==
  With([s1 \in {[s EXCEPT !.vm.globals = MapInsert(s.vm.globals, var_name, value)]} |->
     IF var_name \in DOMAIN s.vm.globals THEN Next_(s1)
     ELSE Return_(runtime_error([s1 EXCEPT !.vm.globals = MapRemove(s1.vm.globals, var_name)],
                                "Undefined variable '{}'."),
                  "RuntimeError")])

\* the match of Vm::run on the instruction at byte offset index
exec(s, frame, chunk, index, instr) ==
  With([op \in {instr.op} |->
  With([constant \in {get_value(chunk, instr.a)} |->
  With([top \in {Peek(s.vm, 0)} |->

  CASE op = "Return" -> exec_return(s, frame)
    [] op \in {"LoadConstant", "DefineGlobal", "SetGlobal", "GetGlobal", "Class",
               "GetProperty", "SetProperty", "Method", "Invoke"}
       /\ ~HasValue(chunk, instr.a) -> Return_(s, "Panic")
    [] op = "LoadConstant" -> Next_([s EXCEPT !.vm = Push(s.vm, constant)])
    [] op = "Negate" ->
         IF top.t = "Number"
         THEN Next_([s EXCEPT !.vm.stack[Len(s.vm.stack)] = NumberV(0 - top.v)])
         ELSE Return_(runtime_error(s, "Operand must be a number."), "RuntimeError")
    [] op = "Not" -> Next_([s EXCEPT !.vm = Push(Pop(s.vm), BooleanV(is_falsey(top)))])
    [] op = "Equal" ->
         With([e \in {check_equals(s.heap.store, Peek(s.vm, 1), top)} |->
         IF e.panic THEN Return_(s, "Panic")
         ELSE Next_([s EXCEPT !.vm = Push(Pop(Pop(s.vm)), BooleanV(e.res))])])
    [] op = "Divide" /\ top.t = "Number" /\ Peek(s.vm, 1).t = "Number"
       /\ (top.v = 0 \/ Peek(s.vm, 1).v % (IF top.v = 0 THEN 1 ELSE top.v) # 0) ->
         Return_(s, "Unmodelled")
    [] op \in {"Greater", "Less", "Subtract", "Multiply", "Divide"} ->
         Next_(perform_binary_op_gen(s, op))
    [] op = "Add" -> Next_(perform_binary_op_plus(s))
    [] op = "Nil" -> Next_([s EXCEPT !.vm = Push(s.vm, NilV)])
    [] op = "True" -> Next_([s EXCEPT !.vm = Push(s.vm, BooleanV(TRUE))])
    [] op = "False" -> Next_([s EXCEPT !.vm = Push(s.vm, BooleanV(FALSE))])
    [] op = "Print" ->
         Next_([s EXCEPT !.vm = Pop(s.vm),
                         !.out = Append(s.out, Display(s.heap.store, top))])
    [] op = "Pop" -> Next_([s EXCEPT !.vm = Pop(s.vm)])
    [] op = "DefineGlobal" ->
         Next_([s EXCEPT !.vm = Pop(s.vm),
                         !.vm.globals = MapInsert(s.vm.globals, constant.v, top)])
    [] op = "SetGlobal" -> exec_set_global(s, constant.v, top)
    [] op = "GetGlobal" ->
         IF constant.v \in DOMAIN s.vm.globals
         THEN Next_([s EXCEPT !.vm = Push(s.vm, s.vm.globals[constant.v])])
         ELSE Next_(runtime_error(s, "Undefined variable '{}'."))
    [] op = "GetLocal" ->
         IF frame.frame_index + instr.a >= Len(s.vm.stack) THEN Return_(s, "Panic")
         ELSE Next_([s EXCEPT !.vm = Push(s.vm, s.vm.stack[frame.frame_index + instr.a + 1])])
    [] op = "SetLocal" ->
         IF frame.frame_index + instr.a >= Len(s.vm.stack) THEN Return_(s, "Panic")
         ELSE Next_([s EXCEPT !.vm.stack[frame.frame_index + instr.a + 1] = top])
    [] op = "JumpFwdIfFalse" ->
         IF is_falsey(top)
         THEN Continue_([s EXCEPT !.vm.call_frames[Len(s.vm.call_frames)].ip =
                                     index + instr.a])
         ELSE Next_(s)
    [] op = "JumpForward" ->
         Continue_([s EXCEPT !.vm.call_frames[Len(s.vm.call_frames)].ip = index + instr.a])
    [] op = "JumpBack" ->
         Continue_([s EXCEPT !.vm.call_frames[Len(s.vm.call_frames)].ip = index - instr.a])
    [] op = "Call" -> OkOrError(call_value(s, Peek(s.vm, instr.a), instr.a))
    [] op = "Closure" -> exec_closure(s, frame, chunk, instr.a)
    [] op = "GetUpvalue" ->
         With([own \in {Obj(s.heap.store, frame.closure).upvalues} |->
         IF instr.a >= Len(own) THEN Return_(s, "Panic")
         ELSE Next_([s EXCEPT !.vm = Push(s.vm, UpvalueRead(s.vm, Obj(s.heap.store,
                                                                     own[instr.a + 1])))])])
    [] op = "SetUpvalue" ->
         With([own \in {Obj(s.heap.store, frame.closure).upvalues} |->
         IF instr.a >= Len(own) THEN Return_(s, "Panic")
         ELSE With([ptr \in {own[instr.a + 1]} |->
              With([o \in {Obj(s.heap.store, ptr)} |->
                 IF o.open THEN Next_([s EXCEPT !.vm = MemWrite(s.vm, o.slot, top)])
                 ELSE Next_([s EXCEPT !.heap.store[ptr].value = top])])])])
    [] op = "CloseUpvalue" ->
         With([s1 \in {close_upvalues(s, Len(s.vm.stack) - 1)} |->
         IF s1.result = "Panic" THEN Return_(s1, "Panic")
         ELSE Next_([s1 EXCEPT !.vm = Pop(s1.vm)])])
    [] op = "Class" ->
         With([m \in {manage_gc(s, LoxClassNew(constant.v))} |->
            Next_([m.s EXCEPT !.vm = Push(m.s.vm, ObjV("Class", m.ptr))])])
    [] op = "GetProperty" -> exec_get_property(s, constant.v)
    [] op = "SetProperty" -> exec_set_property(s, constant.v)
    [] op = "Method" -> Next_(define_method(s, constant.v))
    [] op = "Invoke" -> OkOrError(invoke(s, constant.v, instr.b))
    [] op = "Inherit" -> exec_inherit(s)
    [] op \in {"GetSuper", "SuperInvoke"} /\ ~HasValue(chunk, instr.a) -> Return_(s, "Panic")
    [] op = "GetSuper" -> exec_get_super(s, constant.v)
    [] op = "SuperInvoke" -> exec_super_invoke(s, constant.v, instr.b)
    [] OTHER -> Return_(s, "Unmodelled")])])])

\* a variant of run_step without the test of had_runtime_error after an
\* instruction
run_step_without_error_test(s) ==
  With([idx \in {Len(s.vm.call_frames)} |->
  With([frame \in {CurFrame(s)} |->
  With([chunk \in {FrameChunk(s, frame)} |->
     IF frame.ip >= Len(chunk.code) THEN [s EXCEPT !.result = "Ok"]
     ELSE With([d \in {Decode(chunk.code, frame.ip)} |->
          With([r \in {exec(s, frame, chunk, frame.ip, d.instr)} |->
             IF r.flow # "next" THEN r.s
             ELSE ip_next(r.s, IF d.instr.op = "Return"
                               THEN Len(r.s.vm.call_frames) ELSE idx)])])])])])

\* one turn of the while loop of Vm::run
run_step(s) ==
  With([idx \in {Len(s.vm.call_frames)} |->
  With([frame \in {CurFrame(s)} |->
  With([chunk \in {FrameChunk(s, frame)} |->
     IF frame.ip >= Len(chunk.code) THEN [s EXCEPT !.result = "Ok"]
     ELSE With([d \in {Decode(chunk.code, frame.ip)} |->
          With([r \in {exec(s, frame, chunk, frame.ip, d.instr)} |->
             IF r.flow # "next" THEN r.s
             ELSE With([s1 \in {ip_next(r.s, IF d.instr.op = "Return"
                                             THEN Len(r.s.vm.call_frames) ELSE idx)} |->
                     IF s1.vm.had_runtime_error
                     THEN [s1 EXCEPT !.result = "RuntimeError"]
                     ELSE s1])])])])])])

(* ------------------------------------------------------------------ *)
(* Sources.  A source is written as its lexemes; Lex gives each the    *)
(* token the scanner's contract gives it.                              *)
(* ------------------------------------------------------------------ *)
\* the characters of the lexemes that are longer than one character
Spell(w) ==
  CASE w = "this" -> NameThis
    [] w = "super" -> NameSuper
    [] w = "init" -> NameInit
    [] w = "clock" -> <<"c", "l", "o", "c", "k">>
    [] w = "str" -> <<"s", "t", "r">>
    [] w = "10" -> <<"1", "0">>
    [] w = "21" -> <<"2", "1">>
    [] w = "63" -> <<"6", "3">>
    [] w = "64" -> <<"6", "4">>
    [] w = "\"a\"" -> <<"\"", "a", "\"">>
    [] w = "\"b\"" -> <<"\"", "b", "\"">>
    [] w = "\"ab\"" -> <<"\"", "a", "b", "\"">>
    [] w = "\"ba\"" -> <<"\"", "b", "a", "\"">>
    [] OTHER -> <<w>>

\* TokenType of the fixed lexemes
Keywords ==
  [w \in {"(", ")", "{", "}", ",", ".", "-", "+", ";", "/", "*", "!", "!=", "=", "==",
          ">", ">=", "<", "<=", "and", "class", "else", "false", "for", "fun", "if",
          "nil", "or", "print", "return", "super", "this", "true", "var", "while"} |->
     CASE w = "(" -> "LeftParen" [] w = ")" -> "RightParen"
       [] w = "{" -> "LeftBrace" [] w = "}" -> "RightBrace"
       [] w = "," -> "Comma" [] w = "." -> "Dot"
       [] w = "-" -> "Minus" [] w = "+" -> "Plus"
       [] w = ";" -> "SemiColon" [] w = "/" -> "Slash" [] w = "*" -> "Star"
       [] w = "!" -> "Bang" [] w = "!=" -> "BangEqual"
       [] w = "=" -> "Equal" [] w = "==" -> "EqualEqual"
       [] w = ">" -> "Greater" [] w = ">=" -> "GreaterEqual"
       [] w = "<" -> "Less" [] w = "<=" -> "LessEqual"
       [] w = "and" -> "And" [] w = "class" -> "Class" [] w = "else" -> "Else"
       [] w = "false" -> "False" [] w = "for" -> "For" [] w = "fun" -> "Fun"
       [] w = "if" -> "If" [] w = "nil" -> "Nil" [] w = "or" -> "Or"
       [] w = "print" -> "Print" [] w = "return" -> "Return"
       [] w = "super" -> "Super" [] w = "this" -> "This" [] w = "true" -> "True"
       [] w = "var" -> "Var" [] w = "while" -> "While"]

\* the token of one lexeme; "@" is a character no token starts with
Lex(w) ==
  IF w \in DOMAIN Keywords THEN Tok(Keywords[w], Spell(w))
  ELSE IF w = "@" THEN Tok("Error", <<"Unexpected character.">>)
  ELSE IF Head(Spell(w)) \in {DigitChars[i] : i \in 1..10} THEN Tok("Number", Spell(w))
  ELSE IF Head(Spell(w)) = "\"" THEN Tok("String", Spell(w))
  ELSE Tok("Identifier", Spell(w))

Source(words) == [i \in 1..Len(words) |-> Lex(words[i])]

\* sources of expression statements over the globals a, b, c
SrcMulAdd == Source(<<"a", "*", "b", "+", "c", ";">>)
SrcSubSub == Source(<<"a", "-", "b", "-", "c", ";">>)
SrcDivDiv == Source(<<"a", "/", "b", "/", "c", ";">>)
SrcMulAssign == Source(<<"a", "*", "b", "=", "c", ";">>)
SrcNegAssign == Source(<<"-", "a", "=", "c", ";">>)

\* arithmetic, comparison and literals
SrcArith ==
  Source(<<"print", "2", "*", "3", "+", "4", ";",
           "print", "8", "-", "6", "/", "3", ";",
           "print", "-", "2", "<", "1", ";",
           "print", "!", "(", "2", ">", "1", ")", ";",
           "print", "nil", "==", "false", ";",
           "print", "true", "!=", "true", ";",
           "print", "1", "<=", "1", ";",
           "print", "1", ">=", "2", ";">>)

\* globals, locals and control flow
SrcControl ==
  Source(<<"var", "i", "=", "0", ";",
           "while", "(", "i", "<", "2", ")", "{", "print", "i", ";",
             "i", "=", "i", "+", "1", ";", "}",
           "for", "(", "var", "j", "=", "0", ";", "j", "<", "2", ";",
             "j", "=", "j", "+", "1", ")", "print", "j", ";",
           "{", "var", "k", "=", "5", ";", "k", "=", "k", "+", "1", ";",
             "if", "(", "k", ">", "5", ")", "print", "k", ";", "else", "print", "0", ";",
             "if", "(", "nil", ")", "print", "1", ";", "else", "print", "2", ";", "}">>)

\* strings: literals and concatenation
SrcStrings ==
  Source(<<"var", "s", "=", "\"a\"", "+", "\"b\"", ";",
           "print", "s", ";",
           "print", "s", "==", "\"ab\"", ";",
           "s", "=", "s", "+", "\"a\"", ";",
           "s", "=", "\"a\"", "+", "\"b\"", ";",
           "s", "=", "\"b\"", "+", "\"a\"", ";",
           "print", "s", "+", "s", ";">>)

\* the counter closure: a variable captured, closed at return, shared
\* across calls
SrcCounter ==
  Source(<<"fun", "m", "(", ")", "{", "var", "i", "=", "10", ";",
             "fun", "n", "(", ")", "{", "i", "=", "i", "+", "1", ";", "print", "i", ";", "}",
             "return", "n", ";", "}",
           "var", "c", "=", "m", "(", ")", ";",
           "c", "(", ")", ";", "c", "(", ")", ";", "c", "(", ")", ";">>)

\* two closures over one variable: one writes it, the other reads it,
\* before and after the owning function returns
SrcShared ==
  Source(<<"var", "r", ";", "var", "w", ";",
           "fun", "m", "(", ")", "{", "var", "x", "=", "1", ";",
             "fun", "g", "(", ")", "{", "return", "x", ";", "}",
             "fun", "s", "(", "v", ")", "{", "x", "=", "v", ";", "}",
             "r", "=", "g", ";", "w", "=", "s", ";",
             "s", "(", "2", ")", ";", "print", "g", "(", ")", ";", "print", "x", ";", "}",
           "m", "(", ")", ";", "w", "(", "3", ")", ";", "print", "r", "(", ")", ";">>)

\* a closure over two variables of a block, with an inner block whose
\* own captured variable is closed first
SrcBlocks ==
  Source(<<"var", "G", ";",
           "{", "var", "a", "=", "1", ";", "var", "b", "=", "2", ";",
             "fun", "g", "(", ")", "{", "return", "a", "+", "b", ";", "}",
             "{", "var", "c", "=", "3", ";",
               "fun", "h", "(", ")", "{", "return", "c", ";", "}", "}",
             "b", "=", "4", ";",
             "G", "=", "g", ";", "}",
           "print", "G", "(", ")", ";">>)

\* a closure reaching through its enclosing function's upvalue
SrcNested ==
  Source(<<"fun", "o", "(", ")", "{", "var", "x", "=", "1", ";",
             "fun", "m", "(", ")", "{",
               "fun", "i", "(", ")", "{", "x", "=", "x", "+", "1", ";", "return", "x", ";", "}",
               "return", "i", ";", "}",
             "return", "m", ";", "}",
           "var", "f", "=", "o", "(", ")", "(", ")", ";",
           "print", "f", "(", ")", ";", "print", "f", "(", ")", ";",
           "print", "o", ";">>)

\* classes, instances, fields, methods, bound methods, an initializer
SrcClass ==
  Source(<<"class", "A", "{",
             "init", "(", "x", ")", "{", "this", ".", "x", "=", "x", ";", "}",
             "g", "(", ")", "{", "return", "this", ".", "x", ";", "}", "}",
           "var", "a", "=", "A", "(", "5", ")", ";",
           "print", "a", ".", "g", "(", ")", ";",
           "var", "m", "=", "a", ".", "g", ";",
           "a", ".", "x", "=", "7", ";", "a", ".", "y", "=", "\"a\"", "+", "\"b\"", ";",
           "print", "m", "(", ")", ";", "print", "a", ".", "y", ";", "print", "m", ";",
           "a", ".", "f", "=", "m", ";", "print", "a", ".", "f", "(", ")", ";">>)

\* instances made and dropped, then one printed
SrcInstances ==
  Source(<<"class", "A", "{", "}",
           "var", "x", "=", "A", "(", ")", ";", "print", "x", "==", "nil", ";",
           "x", "=", "A", "(", ")", ";", "x", "=", "A", "(", ")", ";",
           "print", "x", ";">>)

\* a class printed while it lives, dropped with its block, and a second
\* class made and printed
SrcClassAddr ==
  Source(<<"{", "class", "A", "{", "}", "print", "A", ";", "}",
           "class", "B", "{", "}", "print", "B", ";">>)

\* a block holding a captured variable, a class with a method, an
\* instance with a field and strings that become garbage
SrcGarbage ==
  Source(<<"{", "var", "a", "=", "\"a\"", ";",
             "fun", "g", "(", ")", "{", "return", "a", ";", "}",
             "class", "A", "{", "m", "(", ")", "{", "return", "g", ";", "}", "}",
             "var", "i", "=", "A", "(", ")", ";", "i", ".", "f", "=", "g", ";",
             "var", "s", "=", "a", "+", "\"b\"", ";",
             "s", "=", "s", "+", "s", ";", "s", "=", "a", "+", "a", ";",
             "print", "s", ";", "}",
           "print", "\"a\"", "+", "\"a\"", ";">>)

\* the native functions
SrcNative ==
  Source(<<"print", "clock", "(", ")", ";",
           "print", "str", "(", "10", ")", "+", "\"a\"", ";",
           "print", "str", "(", ")", ";", "print", "str", ";",
           "print", "str", "(", "nil", ")", "==", "str", "(", "nil", ")", ";">>)

\* a string doubled until the heap passes the first collection threshold
SrcDoubling ==
  Source(<<"var", "s", "=", "\"a\"", ";",
           "for", "(", "var", "i", "=", "0", ";", "i", "<", "21", ";",
             "i", "=", "i", "+", "1", ")", "s", "=", "s", "+", "s", ";",
           "print", "s", "==", "\"a\"", ";">>)

\* and / or
SrcLogic ==
  Source(<<"print", "nil", "or", "2", ";", "print", "1", "and", "nil", ";",
           "print", "false", "and", "1", "or", "3", ";">>)

\* runtime errors, each after one line was printed and before another
SrcErrNegate == Source(<<"print", "1", ";", "print", "-", "\"a\"", ";", "print", "2", ";">>)
SrcErrSetGlobal ==
  Source(<<"print", "1", ";", "x", "=", "2", ";", "print", "2", ";">>)
SrcErrGetGlobal ==
  Source(<<"var", "g", "=", "1", ";", "print", "g", ";", "g", "=", "y", ";", "print", "2", ";">>)
SrcErrAdd ==
  Source(<<"print", "1", ";", "print", "1", "+", "\"a\"", ";", "print", "2", ";">>)
SrcErrCompare ==
  Source(<<"print", "1", ";", "print", "nil", "<", "1", ";", "print", "2", ";">>)
SrcErrCall ==
  Source(<<"print", "1", ";", "var", "x", "=", "1", ";", "x", "(", ")", ";", "print", "2", ";">>)
SrcErrArity ==
  Source(<<"fun", "f", "(", "a", ")", "{", "}", "print", "1", ";", "f", "(", ")", ";",
           "print", "2", ";">>)
SrcErrInFunction ==
  Source(<<"class", "A", "{", "}", "var", "a", "=", "A", "(", ")", ";",
           "fun", "f", "(", ")", "{", "a", ".", "x", "=", "1", ";", "print", "a", ".", "x", ";",
             "print", "y", ";", "a", ".", "x", "=", "2", ";", "print", "2", ";", "}",
           "f", "(", ")", ";", "print", "3", ";">>)
SrcErrProperty ==
  Source(<<"class", "A", "{", "}", "var", "a", "=", "A", "(", ")", ";", "print", "1", ";",
           "a", ".", "m", "(", ")", ";", "print", "2", ";">>)
SrcErrField ==
  Source(<<"print", "1", ";", "var", "n", "=", "1", ";", "n", ".", "x", "=", "2", ";",
           "print", "2", ";">>)
SrcErrInit ==
  Source(<<"class", "A", "{", "}", "print", "1", ";", "A", "(", "1", ")", ";",
           "print", "2", ";">>)

\* calls of what is not callable, and calls with the wrong number of
\* arguments through a bound method and through a class's init
SrcErrCallNil == Source(<<"print", "1", ";", "nil", "(", ")", ";", "print", "2", ";">>)
SrcErrCallString ==
  Source(<<"print", "1", ";", "\"a\"", "(", "1", ")", ";", "print", "2", ";">>)
SrcErrCallInstance ==
  Source(<<"class", "A", "{", "}", "print", "1", ";", "A", "(", ")", "(", ")", ";",
           "print", "2", ";">>)
SrcErrBoundArity ==
  Source(<<"class", "A", "{", "m", "(", "a", ")", "{", "}", "}",
           "var", "m", "=", "A", "(", ")", ".", "m", ";", "print", "1", ";",
           "m", "(", ")", ";", "print", "2", ";">>)
SrcErrInitArity ==
  Source(<<"class", "A", "{", "init", "(", "a", ")", "{", "}", "}", "print", "1", ";",
           "A", "(", ")", ";", "print", "2", ";">>)

\* the comparison of two functions
SrcPanic == Source(<<"fun", "f", "(", ")", "{", "}", "print", "f", "==", "f", ";">>)

\* lexical and compile errors: at top level, in a function body, in a
\* method body, in a function nested in a function, and after a
\* function that compiled
SrcBadTop == Source(<<"print", "1", ";", "var", ";", "print", "2", ";">>)
SrcBadLex == Source(<<"print", "1", ";", "print", "@", ";">>)
SrcBadExpr == Source(<<"print", "1", "+", ";">>)
SrcBadInFun == Source(<<"print", "1", ";", "fun", "f", "(", ")", "{", "var", ";", "}">>)
SrcBadInMethod ==
  Source(<<"class", "A", "{", "m", "(", ")", "{", "print", ";", "}", "}", "print", "1", ";">>)
SrcBadDeep ==
  Source(<<"fun", "f", "(", ")", "{", "fun", "g", "(", ")", "{", "return", "@", ";", "}", "}",
           "print", "1", ";">>)
SrcBadOpen == Source(<<"fun", "f", "(", ")", "{", "print", "1", ";">>)
SrcBadAfterFun ==
  Source(<<"fun", "f", "(", ")", "{", "}", "print", "1", ";", "1", "=", "2", ";">>)
SrcBadReturn == Source(<<"print", "1", ";", "return", "1", ";">>)
SrcBadOwnInit ==
  Source(<<"fun", "f", "(", ")", "{", "var", "a", "=", "1", ";",
           "{", "var", "a", "=", "a", ";", "}", "}", "print", "1", ";">>)

\* two errors with a synchronization point between them, and a function
\* declaration whose name and parameter list are both missing
SrcBadTwice == Source(<<"var", ";", "print", "1", ";", "print", ";">>)
SrcBadFunName == Source(<<"fun", "{", "}", "print", "1", ";">>)

\* f(n) makes a chain of n nested calls from top-level code
SrcDepth63 ==
  Source(<<"fun", "f", "(", "n", ")", "{", "if", "(", "n", ">", "1", ")",
             "f", "(", "n", "-", "1", ")", ";", "}",
           "f", "(", "63", ")", ";", "print", "1", ";">>)
SrcDepth64 ==
  Source(<<"fun", "f", "(", "n", ")", "{", "if", "(", "n", ">", "1", ")",
             "f", "(", "n", "-", "1", ")", ";", "}",
           "f", "(", "64", ")", ";", "print", "1", ";">>)

\* n declarations var v1; ... var vn;
LocalDecls(n) ==
  [i \in 1..(3 * n) |->
     CASE i % 3 = 1 -> Lex("var")
       [] i % 3 = 2 -> Tok("Identifier", <<"v">> \o NumToChars((i + 1) \div 3))
       [] OTHER -> Lex(";")]

\* a function that declares n locals
SrcLocals(n) ==
  Source(<<"fun", "f", "(", ")", "{">>) \o LocalDecls(n) \o Source(<<"}", "print", "1", ";">>)

\* n expression statements 1; each adds one constant to the chunk
ConstStmts(n) == [i \in 1..(2 * n) |-> IF i % 2 = 1 THEN Lex("1") ELSE Lex(";")]

\* a script whose chunk gets n + 2 constants: 2, n times 1, and 3
SrcConstants(n) ==
  Source(<<"2", ";">>) \o ConstStmts(n) \o Source(<<"print", "3", ";">>)

\* the arguments 1, 1, ... 1 of a call with n arguments
ArgList(n) == [i \in 1..(2 * n - 1) |-> IF i % 2 = 1 THEN Lex("1") ELSE Lex(",")]

\* a call with n arguments
SrcArgs(n) == Source(<<"f", "(">>) \o ArgList(n) \o Source(<<")", ";">>)

\* an init that returns early with a bare return, and one that returns a value
SrcInitReturn ==
  Source(<<"class", "A", "{",
             "init", "(", "x", ")", "{", "this", ".", "x", "=", "x", ";",
               "if", "(", "x", ")", "return", ";", "this", ".", "x", "=", "2", ";", "}", "}",
           "var", "a", "=", "A", "(", "true", ")", ";", "print", "a", ".", "x", ";",
           "var", "b", "=", "A", "(", "false", ")", ";", "print", "b", ".", "x", ";">>)
SrcBadInitReturn ==
  Source(<<"class", "A", "{", "init", "(", ")", "{", "return", "1", ";", "}", "}",
           "print", "A", "(", ")", ";">>)

\* a class that inherits one method, overrides another and reaches the
\* overridden one through super, called and bound
SrcInherit ==
  Source(<<"class", "A", "{",
             "m", "(", ")", "{", "print", "this", ".", "x", ";", "}",
             "n", "(", ")", "{", "print", "2", ";", "}", "}",
           "class", "B", "<", "A", "{",
             "m", "(", ")", "{", "super", ".", "m", "(", ")", ";", "print", "3", ";", "}",
             "k", "(", ")", "{", "var", "f", "=", "super", ".", "m", ";", "f", "(", ")", ";", "}",
             "}",
           "var", "b", "=", "B", "(", ")", ";", "b", ".", "x", "=", "1", ";",
           "b", ".", "n", "(", ")", ";", "b", ".", "m", "(", ")", ";",
           "b", ".", "k", "(", ")", ";">>)

\* a local that shadows a local of the enclosing block, and a local read
\* in its own initializer
SrcShadow ==
  Source(<<"{", "var", "a", "=", "1", ";",
             "{", "var", "a", "=", "2", ";", "print", "a", ";", "}",
             "print", "a", ";", "}">>)
SrcBadOwnInitBlock == Source(<<"{", "var", "a", "=", "a", ";", "}">>)
SrcShadowOwnInit == Source(<<"{", "var", "a", "=", "1", ";", "{", "var", "a", "=", "a", ";", "}", "}">>)

\* closures made in blocks and never called: the captured locals are closed
\* by the CloseUpvalue at the end of their block
SrcBlockClosure ==
  Source(<<"{", "var", "a", "=", "1", ";", "fun", "f", "(", ")", "{", "print", "a", ";", "}", "}",
           "print", "2", ";">>)
\* statements of every kind in a block, locals declared after them
SrcIfNoElse ==
  Source(<<"{", "if", "(", "false", ")", "print", "1", ";",
           "var", "a", "=", "2", ";", "print", "a", ";", "}">>)
SrcBranches ==
  Source(<<"{", "var", "x", "=", "1", ";",
           "if", "(", "x", "<", "2", ")", "print", "1", ";", "else", "print", "2", ";",
           "if", "(", "x", ">", "2", ")", "print", "3", ";", "else", "print", "4", ";",
           "if", "(", "x", "<", "2", ")", "print", "5", ";",
           "while", "(", "x", "<", "3", ")", "x", "=", "x", "+", "1", ";",
           "for", "(", "var", "j", "=", "0", ";", "j", "<", "2", ";",
             "j", "=", "j", "+", "1", ")", "print", "j", ";",
           "{", "var", "y", "=", "6", ";", "x", ";", "}",
           "var", "a", "=", "7", ";", "print", "a", ";", "print", "x", ";", "}">>)
SrcClosedThenOpen ==
  Source(<<"{", "var", "a", "=", "1", ";", "fun", "f", "(", ")", "{", "print", "a", ";", "}", "}",
           "{", "var", "b", "=", "2", ";", "var", "c", "=", "3", ";",
           "fun", "g", "(", ")", "{", "print", "c", ";", "}",
           "fun", "h", "(", ")", "{", "print", "b", ";", "}", "}">>)
SrcBlockClosures ==
  Source(<<"var", "G", ";",
           "{", "var", "a", "=", "1", ";", "var", "b", "=", "2", ";",
           "fun", "f", "(", ")", "{", "print", "a", ";", "print", "b", ";", "}",
           "{", "var", "c", "=", "3", ";", "fun", "g", "(", ")", "{", "print", "c", ";", "}", "}",
           "fun", "h", "(", ")", "{", "print", "b", ";", "}",
           "G", "=", "f", ";",
           "}", "print", "2", ";">>)

\* a method invoked with an argument, then shadowed by a field holding a
\* function, then a name that is neither field nor method
SrcInvoke ==
  Source(<<"class", "A", "{", "m", "(", "x", ")", "{", "return", "x", ";", "}", "}",
           "fun", "g", "(", "x", ")", "{", "return", "2", ";", "}",
           "var", "a", "=", "A", "(", ")", ";", "print", "a", ".", "m", "(", "1", ")", ";",
           "a", ".", "m", "=", "g", ";", "print", "a", ".", "m", "(", "1", ")", ";",
           "a", ".", "m", "(", ")", ";", "a", ".", "k", "(", "1", ")", ";">>)

\* the sources the interpreter is run on
Sources ==
  {SrcMulAdd, SrcSubSub, SrcDivDiv, SrcMulAssign, SrcNegAssign, SrcArith, SrcControl,
   SrcStrings, SrcCounter, SrcShared, SrcBlocks, SrcNested, SrcClass, SrcInstances,
   SrcClassAddr, SrcGarbage,
   SrcNative, SrcDoubling, SrcLogic, SrcErrNegate, SrcErrSetGlobal, SrcErrGetGlobal,
   SrcErrAdd, SrcErrCompare, SrcErrCall, SrcErrArity, SrcErrInFunction, SrcErrProperty,
   SrcErrField, SrcErrInit, SrcPanic, SrcBadTop, SrcBadLex, SrcBadExpr, SrcBadInFun,
   SrcBadInMethod, SrcBadDeep, SrcBadOpen, SrcBadAfterFun, SrcBadReturn,
   SrcBadOwnInit, SrcBadTwice, SrcBadFunName, SrcDepth63, SrcDepth64,
   SrcLocals(LOCALS_MAX_CAPACITY - 1), SrcLocals(LOCALS_MAX_CAPACITY),
   SrcConstants(U8_MAX - 1), SrcConstants(U8_MAX),
   SrcArgs(U8_MAX), SrcArgs(U8_MAX + 1), SrcErrCallNil, SrcErrCallString,
   SrcErrCallInstance, SrcErrBoundArity, SrcErrInitArity, SrcInitReturn,
   SrcBadInitReturn, SrcInherit, SrcShadow, SrcBadOwnInitBlock, SrcShadowOwnInit,
   SrcBlockClosure, SrcBlockClosures, SrcClosedThenOpen,
   SrcIfNoElse, SrcBranches, SrcInvoke}

\* what ClockNative may return: whole seconds since the start
ClockValues == {0}

(* ------------------------------------------------------------------ *)
(* The interpreter as a state machine: run_file reads a source,        *)
(* Interpreter::interpret compiles it, builds the Vm and runs it one   *)
(* instruction at a time, and run_file exits.                          *)
(* ------------------------------------------------------------------ *)
VARIABLES
  scanner,      \* the Scanner of Interpreter::print_tokens
  tokens,       \* the tokens of the source
  full_rules,   \* the Pratt table the build carries
  stress,       \* the build feature debug_stress_gc
  stack_above,  \* whether the stack's buffer lies above the heap's blocks
  clock,        \* what ClockNative returns
  phase,        \* "Start", "Compiling", "Compiled", "Running", "Done", "Exited"
  compiler,     \* the Compiler while Interpreter::compile runs
  calls,        \* the compiler's calls in progress, innermost last
  errors,       \* the errors the compiler reported
  vm_init,      \* the VmInit of Interpreter::compile, function -1 for None
  heap,         \* the Heap
  vm,           \* the Vm
  out,          \* the lines printed to stdout
  stderr,       \* the runtime errors reported
  result,       \* the InterpreterResult, "Running" or "Panic"
  collections,  \* how many times collect_garbage ran
  steps,        \* how many instructions run has dispatched
  exit_code     \* the process's exit status, -1 while it runs

vars ==
  <<scanner, tokens, full_rules, stress, stack_above, clock, phase, compiler, calls, errors,
    vm_init, heap, vm, out, stderr, result, collections, steps, exit_code>>

\* no Scanner: the compiler holds its own
ScannerNone == [source |-> <<>>, curr |-> 0, start |-> 0, line |-> 0]

\* no VmInit yet
VmInitNone == [function |-> -1, heap |-> HeapNew]

\* no Compiler: before Interpreter::compile and after it has returned
CompilerDropped == [dropped |-> TRUE]

\* the Vm before Vm::new
VmNone ==
  [stack |-> <<>>, spare |-> <<>>, call_frames |-> <<>>, globals |-> EmptyMap,
   had_runtime_error |-> FALSE, open_upvalues |-> <<>>, class_init_method |-> 0]

\* initialize_built_ins
initialize_built_ins(h) ==
  With([clock_native \in {manage(h, LoxNativeFunNew("clock"))} |->
  With([value_to_str \in {manage(clock_native.h, LoxNativeFunNew("str"))} |->
  With([clock_native_name \in {intern_string(value_to_str.h, ToStr(<<"c", "l", "o", "c", "k">>))} |->
  With([value_to_str_name \in {intern_string(clock_native_name.h, ToStr(<<"s", "t", "r">>))} |->
     [h |-> value_to_str_name.h,
      globals |-> MapInsert(MapInsert(EmptyMap, clock_native_name.ptr,
                                      ObjV("NativeFunction", clock_native.ptr)),
                            value_to_str_name.ptr,
                            ObjV("NativeFunction", value_to_str.ptr))]])])])])

\* Vm::new
vm_new(h, fun_ptr) ==
  With([closure \in {manage(h, LoxClosureNew(fun_ptr))} |->
  With([built \in {initialize_built_ins(closure.h)} |->
  With([init_name \in {intern_string(built.h, ToStr(NameInit))} |->
     [h |-> init_name.h,
      vm |-> [stack |-> <<ObjV("Closure", closure.ptr)>>,
              spare |-> <<>>,
              call_frames |-> <<[closure |-> closure.ptr, ip |-> 0, frame_index |-> 0]>>,
              globals |-> built.globals,
              had_runtime_error |-> FALSE,
              open_upvalues |-> <<>>,
              class_init_method |-> init_name.ptr]]])])])

\* the machine the operators of the VM work on
Machine ==
  [heap |-> heap, vm |-> vm, out |-> out, stderr |-> stderr, result |-> result,
   stress |-> stress, stack_above |-> stack_above, clock |-> clock,
   collections |-> collections]

Init ==
  /\ scanner = ScannerNone
  /\ tokens \in Sources
  /\ full_rules \in BOOLEAN
  /\ stress \in BOOLEAN
  /\ stack_above \in BOOLEAN
  /\ clock \in ClockValues
  /\ phase = "Start"
  /\ errors = <<>>
  /\ compiler = CompilerDropped
  /\ calls = <<>>
  /\ vm_init = VmInitNone
  /\ heap = HeapNew
  /\ vm = VmNone
  /\ out = <<>>
  /\ stderr = <<>>
  /\ result = "Running"
  /\ collections = 0
  /\ steps = 0
  /\ exit_code = -1

\* Interpreter::compile up to the loop of Compiler::compile: Compiler::new
\* and the first advance
CompileStart ==
  /\ phase = "Start"
  /\ \E c \in {advance(CompilerNew(tokens, full_rules))} :
       /\ compiler' = c
       /\ errors' = c.errors
       /\ heap' = c.heap
  /\ calls' = <<Call("compile", 0, 0)>>
  /\ phase' = "Compiling"
  /\ UNCHANGED <<scanner, tokens, full_rules, stress, stack_above, clock, vm_init, vm, out,
                 stderr, result, collections, steps, exit_code>>

\* the compiler runs on to the next declaration or statement
CompileStep ==
  /\ phase = "Compiling"
  /\ calls # <<>>
  /\ \E r \in {resume(compiler, calls)} :
       /\ compiler' = r.c
       /\ calls' = r.calls
       /\ errors' = r.c.errors
       /\ heap' = r.c.heap
  /\ UNCHANGED <<scanner, tokens, full_rules, stress, stack_above, clock, phase, vm_init, vm,
                 out, stderr, result, collections, steps, exit_code>>

\* the end_compile of Compiler::compile, the VmInit of Interpreter::compile
\* and the CompileError return of interpret
CompileEnd ==
  /\ phase = "Compiling"
  /\ calls = <<>>
  /\ \E res \in {end_compile(compiler)} :
       /\ errors' = res.c.errors
       /\ heap' = res.c.heap
       /\ vm_init' = IF res.r = -1 THEN VmInitNone
                     ELSE [function |-> res.r, heap |-> res.c.heap]
       /\ phase' = IF res.r = -1 THEN "Done" ELSE "Compiled"
       /\ result' = IF res.r = -1 THEN "CompileError" ELSE result
  /\ compiler' = CompilerDropped
  /\ UNCHANGED <<scanner, tokens, full_rules, stress, stack_above, clock, calls, vm, out, stderr,
                 collections, steps, exit_code>>

\* Vm::new, from Interpreter::run
VmNew ==
  /\ phase = "Compiled"
  /\ \E m \in {vm_new(vm_init.heap, vm_init.function)} :
       /\ heap' = m.h
       /\ vm' = m.vm
  /\ phase' = "Running"
  /\ UNCHANGED <<scanner, tokens, full_rules, stress, stack_above, clock, compiler, calls, errors,
                 vm_init, out, stderr, result, collections, steps, exit_code>>

\* one turn of the loop of Vm::run
VmRunStep ==
  /\ phase = "Running"
  /\ \E s \in {run_step(Machine)} :
       /\ heap' = s.heap
       /\ vm' = s.vm
       /\ out' = s.out
       /\ stderr' = s.stderr
       /\ result' = s.result
       /\ collections' = s.collections
       /\ phase' = IF s.result = "Running" THEN "Running" ELSE "Done"
  /\ steps' = steps + 1
  /\ UNCHANGED <<scanner, tokens, full_rules, stress, stack_above, clock, compiler, calls,
                 errors, vm_init,
                 exit_code>>

\* a variant of exit_status with the two error statuses exchanged
exit_status_exchanged(res) ==
  CASE res = "CompileError" -> 70
    [] res = "RuntimeError" -> 65
    [] res = "Ok" -> 0
    [] OTHER -> 101

\* the match of run_file on the InterpreterResult: the exit status (a
\* panic unwinds out of main with status 101)
exit_status(res) ==
  CASE res = "CompileError" -> 65
    [] res = "RuntimeError" -> 70
    [] res = "Ok" -> 0
    [] OTHER -> 101

\* the end of run_file
RunFileExit ==
  /\ phase = "Done"
  /\ exit_code' = exit_status(result)
  /\ phase' = "Exited"
  /\ UNCHANGED <<scanner, tokens, full_rules, stress, stack_above, clock, compiler, calls, errors,
                 vm_init, heap, vm, out, stderr, result, collections, steps>>

Next == CompileStart \/ CompileStep \/ CompileEnd \/ VmNew \/ VmRunStep \/ RunFileExit

Spec == Init /\ [][Next]_vars

(* ------------------------------------------------------------------ *)
(* Reachability, stated apart from the collector's own marking.        *)
(* ------------------------------------------------------------------ *)
\* the handles among a sequence of values
ValueHandles(values) == {values[i].v : i \in {j \in 1..Len(values) : IsObjV(values[j])}}

\* the handles among the keys and values of a map from names to values
EntryHandles(map) == DOMAIN map \cup {map[key].v : key \in {x \in DOMAIN map : IsObjV(map[x])}}

\* the handles an object holds
Refs(store_, vm_, ptr) ==
  LET o == Obj(store_, ptr) IN
  CASE o.k = "LoxFun" -> {o.name} \cup ValueHandles(o.chunk.values)
    [] o.k = "Upvalue" -> ValueHandles(<<UpvalueRead(vm_, o)>>)
    [] o.k = "LoxClosure" -> {o.function} \cup {o.upvalues[i] : i \in 1..Len(o.upvalues)}
    [] o.k = "LoxClass" -> {o.name} \cup EntryHandles(o.methods)
    [] o.k = "LoxInstance" -> {o.class} \cup EntryHandles(o.fields)
    [] o.k = "LoxBoundMethod" -> {o.method} \cup ValueHandles(<<o.receiver>>)
    [] OTHER -> {}

\* the handles the Vm's own fields hold
RootHandles(vm_) ==
  ValueHandles(vm_.stack)
    \cup {vm_.call_frames[i].closure : i \in 1..Len(vm_.call_frames)}
    \cup {vm_.open_upvalues[i] : i \in 1..Len(vm_.open_upvalues)}
    \cup EntryHandles(vm_.globals)
    \cup (IF vm_.class_init_method = 0 THEN {} ELSE {vm_.class_init_method})

\* the handles reachable from a set of handles
RECURSIVE ReachableFrom(_, _, _)
ReachableFrom(store_, vm_, seen) ==
  LET more == (UNION {Refs(store_, vm_, p) : p \in seen}) \ seen IN
  IF more = {} THEN seen ELSE ReachableFrom(store_, vm_, seen \cup more)

Reachable(store_, vm_) == ReachableFrom(store_, vm_, RootHandles(vm_))

\* the script's chunk once compiled
ScriptChunk == Obj(heap.store, vm_init.function).chunk

\* the opcodes of a chunk, in order
Ops(chunk) == LET is == Instrs(chunk.code, 0) IN [i \in 1..Len(is) |-> is[i].op]

\* the whole loop of Vm::run, from a machine to the machine it returns in
RECURSIVE run_to_end(_)
run_to_end(s) == IF s.result # "Running" THEN s ELSE run_to_end(run_step(s))

\* Interpreter::run on a compiled source, in a build with or without
\* debug_stress_gc
interpreter_run(h, fun_ptr, stress_, stack_above_, clock_) ==
  LET m == vm_new(h, fun_ptr) IN
  run_to_end([heap |-> m.h, vm |-> m.vm, out |-> <<>>, stderr |-> <<>>,
              result |-> "Running", stress |-> stress_, stack_above |-> stack_above_,
              clock |-> clock_, collections |-> 0])

(* ------------------------------------------------------------------ *)
(* Properties.                                                         *)
(* ------------------------------------------------------------------ *)
\* the blocks a collection has swept
Swept == (1..(heap.next_serial - 1)) \ DOMAIN heap.store

\* C1: with a collection at every allocation site (and in the threshold
\* build as well), every handle the Vm holds in its stack, callframes,
\* open upvalues, globals or init name, and every handle reachable from
\* those through closures' upvalues, instance fields, class methods and
\* chunk constants, refers to an object no collection has swept.
C1_NoSweptHandleHeld ==
  phase \in {"Running", "Done", "Exited"} /\ vm_init.function # -1
    => Reachable(heap.store, vm) \subseteq DOMAIN heap.store

\* a collection has swept objects while closures, upvalues and instances
\* are still held
C1_Witness ==
  /\ stress
  /\ phase = "Running"
  /\ Swept # {}
  /\ \E p \in Reachable(heap.store, vm) : Obj(heap.store, p).k = "Upvalue"
  /\ \E p \in Reachable(heap.store, vm) : Obj(heap.store, p).k = "LoxInstance"

\* C2: collect_garbage keeps exactly the objects and interned strings
\* reachable from the stack, the open upvalues, the globals, the
\* callframes' closures and the init name, and removes every other.
C2_CollectKeepsExactlyReachable ==
  phase = "Running" =>
    LET live == Reachable(heap.store, vm) \cap DOMAIN heap.store
        after == collect_garbage(heap, vm)
    IN /\ DOMAIN after.store = live
       /\ after.objects = SelectSeq(heap.objects, LAMBDA p : p \in live)
       /\ DOMAIN after.interned_strs =
            {str \in DOMAIN heap.interned_strs : heap.interned_strs[str] \in live}
       /\ \A str \in DOMAIN after.interned_strs :
            after.interned_strs[str] = heap.interned_strs[str]
       /\ \A p \in live : after.store[p] = heap.store[p]

\* a heap holding both garbage and live objects of every kind, some of
\* them reached only through other objects
C2_Witness ==
  /\ phase = "Running"
  /\ DOMAIN heap.store \ Reachable(heap.store, vm) # {}
  /\ \E p \in Reachable(heap.store, vm) : Obj(heap.store, p).k = "Upvalue"
  /\ \E p \in Reachable(heap.store, vm) \ RootHandles(vm) :
       Obj(heap.store, p).k = "LoxStr"
  /\ \E p \in DOMAIN heap.store \ Reachable(heap.store, vm) :
       Obj(heap.store, p).k = "LoxStr"

\* the line println! writes for a sequence of characters
Line(chars) == ToStr(chars)

\* C3 (refuted): a source run in the debug_stress_gc build and in the
\* threshold build prints the same lines and ends with the same result.
C3_StressRunPrintsTheSame ==
  phase = "Done" /\ vm_init.function # -1 =>
    LET other == interpreter_run(vm_init.heap, vm_init.function, ~stress, stack_above,
                                 clock)
    IN other.out = out /\ other.result = result

\* C4: the intern table holds one entry per byte sequence, intern_string
\* on bytes already present returns that entry's handle and allocates
\* nothing, and two strings with equal bytes are one object, whatever
\* collections have run.
C4_EqualStringsShareHandle ==
  phase # "Start" =>
    /\ \A str \in DOMAIN heap.interned_strs :
         /\ Obj(heap.store, heap.interned_strs[str]).k = "LoxStr"
         /\ Obj(heap.store, heap.interned_strs[str]).val = str
         /\ intern_string(heap, str) = [h |-> heap, ptr |-> heap.interned_strs[str]]
    /\ \A p, q \in DOMAIN heap.store :
         heap.store[p].k = "LoxStr" /\ heap.store[q].k = "LoxStr"
           /\ heap.store[p].val = heap.store[q].val => p = q
    /\ \A p \in Reachable(heap.store, vm) :
         Obj(heap.store, p).k = "LoxStr" =>
           /\ Obj(heap.store, p).val \in DOMAIN heap.interned_strs
           /\ heap.interned_strs[Obj(heap.store, p).val] = p

\* after collections, a global holds a string made by Add whose handle
\* is that of a literal with the same bytes
C4_Witness ==
  /\ phase = "Running"
  /\ collections >= 2
  /\ Swept # {}
  /\ \E g \in DOMAIN vm.globals :
       /\ vm.globals[g].t = "String"
       /\ vm.globals[g].v \in ValueHandles(ScriptChunk.values)
       /\ Obj(heap.store, vm.globals[g].v).val = Line(<<"a", "b">>)

\* C5 (refuted): a captured variable is one shared cell across the end
\* of its frame or block: the counter closure prints 11, 12, 13; a value
\* written through one closure is read through the other, before and
\* after the owner returns (2, 2, 3); a closure over a and b of a block
\* that has ended returns a + b = 1 + 4; a closure reaching through its
\* enclosing function's upvalue counts 2, 3.
C5_CapturedVariableIsShared ==
  phase = "Done" /\ full_rules =>
    /\ tokens = SrcCounter =>
         out = <<Line(<<"1", "1">>), Line(<<"1", "2">>), Line(<<"1", "3">>)>>
    /\ tokens = SrcShared => out = <<Line(<<"2">>), Line(<<"2">>), Line(<<"3">>)>>
    /\ tokens = SrcBlocks => out = <<Line(<<"5">>)>>
    /\ tokens = SrcNested => SubSeq(out, 1, 2) = <<Line(<<"2">>), Line(<<"3">>)>>

\* C6: once a lexical or compile error has been reported, at top level
\* or in a function or method body at any depth, compile has returned
\* None, interpret's result is CompileError and run has dispatched no
\* instruction.
C6_CompileErrorRunsNothing ==
  errors # <<>> =>
    /\ phase \in {"Compiling", "Done", "Exited"}
    /\ phase # "Compiling" => compiler = CompilerDropped /\ result = "CompileError"
    /\ vm_init = VmInitNone
    /\ steps = 0
    /\ vm = VmNone
    /\ out = <<>>

\* an error reported inside a function nested in a function, with a
\* statement that compiles after it
C6_Witness ==
  /\ tokens = SrcBadDeep
  /\ phase = "Done"
  /\ Len(errors) = 1
  /\ errors[1].kind = "Error"

\* the sources whose run ends in a runtime error after printing 1
ErrorSources ==
  {SrcErrNegate, SrcErrSetGlobal, SrcErrGetGlobal, SrcErrAdd, SrcErrCompare, SrcErrCall,
   SrcErrArity, SrcErrInFunction, SrcErrProperty, SrcErrField, SrcErrInit}

\* no field of an instance of store_ has another value in after
FieldsKept(store_, after) ==
  \A p \in DOMAIN store_ \cap DOMAIN after :
    store_[p].k = "LoxInstance" => after[p].fields = store_[p].fields

\* C7: the instruction that raises a runtime error is the last one run
\* dispatches: run returns RuntimeError with it, and nothing is printed,
\* no global and no field is written and no instruction is dispatched
\* from then on; what was printed before it is what the instructions
\* before it printed, in their order (the line 1 of each erroring source,
\* and none of its later lines).
C7_RuntimeErrorEndsRun ==
  [][/\ vm'.had_runtime_error /\ ~vm.had_runtime_error =>
          /\ result' = "RuntimeError"
          /\ phase' = "Done"
          /\ out' = out
          /\ vm'.globals = vm.globals
          /\ FieldsKept(heap.store, heap'.store)
     /\ vm.had_runtime_error =>
          /\ result = "RuntimeError"
          /\ UNCHANGED <<vm, heap, out, stderr, steps, result>>
     /\ result' = "RuntimeError" => vm'.had_runtime_error
     /\ result' = "RuntimeError" /\ tokens \in ErrorSources => out' = <<Line(<<"1">>)>>
    ]_vars

\* a run has ended in a runtime error raised inside a called function,
\* after a field write and a print and before a field write and a print
C7_Witness ==
  /\ tokens = SrcErrInFunction
  /\ phase = "Exited"
  /\ result = "RuntimeError"
  /\ vm.had_runtime_error
  /\ out = <<Line(<<"1">>)>>

\* C8: the exit status is 0 exactly when compile returned a function and
\* run returned Ok, 65 exactly when the compiler reported an error, and
\* 70 exactly when run raised a runtime error.
C8_ExitStatus ==
  phase = "Exited" =>
    /\ exit_code = 0 <=> (vm_init # VmInitNone /\ result = "Ok")
    /\ exit_code = 65 <=> errors # <<>>
    /\ exit_code = 70 <=> vm.had_runtime_error

\* a file has exited with 70 after printing
C8_Witness ==
  /\ phase = "Exited"
  /\ exit_code = 70
  /\ vm.had_runtime_error
  /\ out # <<>>

\* C9 (refuted): the right operand of a binary operator of level L is
\* parsed at the level next above L, and a * b + c, a - b - c and
\* a / b / c compile to a b Multiply c Add, a b Subtract c Subtract and
\* a b Divide c Divide (each followed by the statement's Pop and the
\* script's Nil Return).
C9_BinaryOperatorsLeftAssociative ==
  phase = "Compiled" =>
    /\ \A level \in {PrecEquality, PrecComparison, PrecTerm, PrecFactor} :
         next_greater(level) = level + 1
    /\ tokens = SrcMulAdd =>
         Ops(ScriptChunk) = <<"GetGlobal", "GetGlobal", "Multiply", "GetGlobal", "Add",
                              "Pop", "Nil", "Return">>
    /\ tokens = SrcSubSub =>
         Ops(ScriptChunk) = <<"GetGlobal", "GetGlobal", "Subtract", "GetGlobal",
                              "Subtract", "Pop", "Nil", "Return">>
    /\ tokens = SrcDivDiv =>
         Ops(ScriptChunk) = <<"GetGlobal", "GetGlobal", "Divide", "GetGlobal", "Divide",
                              "Pop", "Nil", "Return">>

\* the opcodes of the function the compiler is in
CompilerOps == Ops(cctx(compiler).function.chunk)

\* C10 (refuted): the = after the operand b of a * b = c, or after the
\* operand a of -a = c, is not compiled as an assignment to the operand:
\* the compiler emits no SetGlobal for these sources.
C10_NoAssignmentToOperand ==
  tokens \in {SrcMulAssign, SrcNegAssign} =>
    /\ phase = "Compiling" => \A i \in 1..Len(CompilerOps) : CompilerOps[i] # "SetGlobal"
    /\ phase = "Compiled" =>
         \A i \in 1..Len(Ops(ScriptChunk)) : Ops(ScriptChunk)[i] # "SetGlobal"

\* C11 (refuted): between two reports of an error synchronize has run:
\* panic mode suppresses every error from the first one to the
\* synchronization point, in every function and method body.
C11_NoErrorBeforeSynchronize ==
  \A i \in 1..(Len(errors) - 1) : errors[i].syncs < errors[i + 1].syncs

\* two errors are reported, and synchronize ran between them
C11_Witness ==
  /\ tokens = SrcBadTwice
  /\ phase = "Done"
  /\ Len(errors) = 2
  /\ errors[1].syncs = 0
  /\ errors[2].syncs = 1


\* C12 (refuted): 'Stack overflow.' is raised only by a call made while
\* 64 nested calls are in progress above top-level code (the 65th): a
\* chain of 64 nested calls runs without error.
C12_OverflowOnlyAtThe65thCall ==
  [][(Len(stderr') > Len(stderr) /\ Last(stderr') = "Stack overflow.")
       => Len(vm.call_frames) - 1 >= 64]_vars

\* the callframe stack never holds more than 64 frames
C12_FramesWithinCapacity == Len(vm.call_frames) <= FRAMES_MIN_SIZE

\* a chain of 63 nested calls has run to its end without error
C12_Witness63 ==
  /\ tokens = SrcDepth63
  /\ phase = "Done"
  /\ result = "Ok"
  /\ out = <<Line(<<"1">>)>>

\* the chain of 64 nested calls has been stopped by 'Stack overflow.'
C12_Witness ==
  /\ tokens = SrcDepth64
  /\ phase = "Done"
  /\ result = "RuntimeError"
  /\ stderr = <<"Stack overflow.">>


\* C13 (refuted): 'Too many local variables in function.' is reported only
\* for a declaration in a function that already holds 256 locals, the
\* reserved slot zero counted: a function with 256 locals compiles.
C13_TooManyLocalsOnlyAfter256 ==
  [][(/\ phase = "Compiling"
      /\ Len(errors') > Len(errors)
      /\ \E i \in (Len(errors) + 1)..Len(errors') :
           errors'[i].message = "Too many local variables in function.")
       => Len(cctx(compiler).stack_sim.locals) >= 256]_vars

\* the function with 254 declared locals has compiled and run
C13_Witness254 ==
  /\ tokens = SrcLocals(LOCALS_MAX_CAPACITY - 1)
  /\ phase = "Done"
  /\ errors = <<>>
  /\ result = "Ok"

\* the 255th declared local of a function is reported
C13_Witness ==
  /\ tokens = SrcLocals(LOCALS_MAX_CAPACITY)
  /\ phase = "Done"
  /\ Len(errors) = 1
  /\ errors[1].message = "Too many local variables in function."
  /\ errors[1].at = <<"v">> \o NumToChars(LOCALS_MAX_CAPACITY)


\* C14 (refuted): while the compiler runs, a chunk whose constant pool has
\* received a constant beyond its 256th has had 'Too many constants in one
\* chunk.' reported, and a source compiled without error prints the
\* constant of its print statement.
C14_ConstantBeyond256Reported ==
  /\ phase = "Compiling" =>
       \A i \in 1..Len(compiler.ctx_stk) :
         Len(compiler.ctx_stk[i].function.chunk.values) > U8_MAX + 1 =>
           \E j \in 1..Len(errors) :
             errors[j].message = "Too many constants in one chunk."
  /\ (phase = "Done" /\ result = "Ok" /\ \E n \in {U8_MAX - 1, U8_MAX} : tokens = SrcConstants(n))
       => out = <<Line(<<"3">>)>>

\* a chunk of 256 constants: the last instruction loads the last constant
C14_Witness256 ==
  /\ tokens = SrcConstants(U8_MAX - 1)
  /\ phase = "Done"
  /\ result = "Ok"
  /\ out = <<Line(<<"3">>)>>

\* a chunk of 257 constants has compiled without error, and the
\* instruction of the 257th has loaded the first
C14_Witness ==
  /\ tokens = SrcConstants(U8_MAX)
  /\ phase = "Done"
  /\ errors = <<>>
  /\ result = "Ok"
  /\ out = <<Line(<<"2">>)>>


\* the operand k of the Call that ends the chunk of the script, before the
\* Pop of the expression statement; -1 if the chunk does not end so
LastCallOperand ==
  LET code == compiler.ctx_stk[1].function.chunk.code
      ends == {k \in 0..U8_MAX :
                 /\ Len(code) >= 3
                 /\ SubSeq(code, Len(code) - 2, Len(code))
                      = Encode(I1("Call", k)) \o Encode(I0("Pop"))}
  IN IF ends = {} THEN -1 ELSE CHOOSE k \in ends : TRUE

\* C15 (refuted): once the statement f(1, ..., 1); is compiled, a call of
\* 255 arguments has no error and the operand 255, and a call of 256
\* arguments has the error 'Can't have more than 255 arguments.' and a
\* counter that has not wrapped around below 255.
C15_ArgumentCounterNeverWraps ==
  \A n \in {U8_MAX, U8_MAX + 1} :
    (/\ tokens = SrcArgs(n)
     /\ full_rules
     /\ phase = "Compiling"
     /\ compiler.tin.cur.kind = "EOF"
     /\ compiler.tin.pre.kind = "SemiColon")
    => IF n <= U8_MAX
       THEN errors = <<>> /\ LastCallOperand = n
       ELSE /\ \E j \in 1..Len(errors) :
                 errors[j].message = "Can't have more than 255 arguments."
            /\ LastCallOperand >= U8_MAX

\* the call of 255 arguments is compiled to Call 255 without error
C15_Witness255 ==
  /\ tokens = SrcArgs(U8_MAX)
  /\ full_rules
  /\ phase = "Compiling"
  /\ compiler.tin.cur.kind = "EOF"
  /\ errors = <<>>
  /\ LastCallOperand = U8_MAX

\* the call of 256 arguments is reported, and its counter is back at 0
C15_Witness ==
  /\ tokens = SrcArgs(U8_MAX + 1)
  /\ full_rules
  /\ phase = "Compiling"
  /\ compiler.tin.cur.kind = "EOF"
  /\ Len(errors) = 1
  /\ errors[1].message = "Can't have more than 255 arguments."
  /\ LastCallOperand = 0


(* ------------------------------------------------------------------ *)
(* Forward jumps over long code: the compiler between the emit_jump    *)
(* and the patch_fwd_jump of one jump, as in if_statement, and_ and    *)
(* or_, with the code in between as long as the limit of the operand.  *)
(* ------------------------------------------------------------------ *)
\* how many statements nil; are compiled before the jump
JumpPrefixes == 0..4

\* the distances in bytes from the start of the jump to its target
JumpDistances == {3, 4, U16_MAX - 1, U16_MAX, U16_MAX + 1, U16_MAX + 2}

\* the code of p statements nil;
PrefixCode(p) == [i \in 1..(2 * p) |-> IF i % 2 = 1 THEN OpTag("Nil") ELSE OpTag("Pop")]

\* n bytes of code after a jump: the Pop of the condition, then statements nil;
JumpFiller(n) == [i \in 1..n |-> IF i % 2 = 1 THEN OpTag("Pop") ELSE OpTag("Nil")]

InitJump ==
  /\ scanner = ScannerNone
  /\ tokens = <<>>
  /\ full_rules = TRUE
  /\ stress = FALSE
  /\ stack_above = FALSE
  /\ clock = 0
  /\ phase = "Start"
  /\ errors = <<>>
  /\ compiler = CompilerDropped
  /\ calls = <<>>
  /\ vm_init = VmInitNone
  /\ heap = HeapNew
  /\ vm = VmNone
  /\ out = <<>>
  /\ stderr = <<>>
  /\ result = "Running"
  /\ collections = 0
  /\ steps = 0
  /\ exit_code = -1

\* Compiler::emit_jump after some code; the patch location waits in calls
JumpEmit ==
  /\ phase = "Start"
  /\ \E p \in JumpPrefixes, op \in {"JumpFwdIfFalse", "JumpForward"} :
       \E j \in {emit_jump([CompilerNew(tokens, full_rules) EXCEPT
                              !.ctx_stk[1].function.chunk.code = PrefixCode(p)],
                           I1(op, U16_MAX))} :
         /\ compiler' = j.c
         /\ calls' = <<Call("patch_fwd_jump", j.r, 0)>>
  /\ phase' = "Jump"
  /\ UNCHANGED <<scanner, tokens, full_rules, stress, stack_above, clock, errors, vm_init, heap,
                 vm, out, stderr, result, collections, steps, exit_code>>

\* the code the jump is to skip is emitted
JumpBody ==
  /\ phase = "Jump"
  /\ \E d \in JumpDistances :
       compiler' = [compiler EXCEPT !.ctx_stk[1].function.chunk.code =
                                      @ \o JumpFiller(d - 3)]
  /\ phase' = "Body"
  /\ UNCHANGED <<scanner, tokens, full_rules, stress, stack_above, clock, calls, errors, vm_init,
                 heap, vm, out, stderr, result, collections, steps, exit_code>>

\* Compiler::patch_fwd_jump
JumpPatch ==
  /\ phase = "Body"
  /\ \E c \in {patch_fwd_jump(compiler, calls[1].a)} :
       /\ compiler' = c
       /\ errors' = c.errors
  /\ phase' = "Patched"
  /\ UNCHANGED <<scanner, tokens, full_rules, stress, stack_above, clock, calls, vm_init, heap,
                 vm, out, stderr, result, collections, steps, exit_code>>

NextJump == JumpEmit \/ JumpBody \/ JumpPatch

SpecJump == InitJump /\ [][NextJump]_vars

\* the distance from the start of the jump being patched to the end of the code
JumpDistance == Len(compiler.ctx_stk[1].function.chunk.code) - calls[1].a

\* C16: a forward jump (JumpFwdIfFalse or JumpForward) over a distance of
\* at most 65535 bytes, counted from the start of the jump instruction, is
\* patched without error and carries the distance as its operand; over
\* 65536 bytes or more it reports 'Too much code to jump over.'.
C16_ForwardJumpLimit ==
  phase = "Patched" =>
    IF JumpDistance <= 65535
    THEN /\ errors = <<>>
         /\ Decode(compiler.ctx_stk[1].function.chunk.code, calls[1].a).instr.a
              = JumpDistance
    ELSE /\ Len(errors) = 1
         /\ errors[1].message = "Too much code to jump over."

\* a jump over exactly 65535 bytes has been patched without error
C16_Witness ==
  /\ phase = "Patched"
  /\ JumpDistance = 65535
  /\ errors = <<>>

\* a jump over exactly 65536 bytes has been reported
C16_Witness65536 ==
  /\ phase = "Patched"
  /\ JumpDistance = 65536
  /\ Len(errors) = 1


\* the instruction run is about to dispatch
Dispatching ==
  /\ phase = "Running"
  /\ result = "Running"
  /\ CurFrame(Machine).ip < Len(FrameChunk(Machine, CurFrame(Machine)).code)

CurInstr == Decode(FrameChunk(Machine, CurFrame(Machine)).code, CurFrame(Machine).ip).instr

\* a Call argc is about to be dispatched
CallPending == Dispatching /\ CurInstr.op = "Call"

\* the value Call argc calls
Callee == Peek(vm, CurInstr.a)

\* the closures Vm::call_value hands to Vm::call for the callee: the
\* closure itself, a bound method's method, a class's init
CalleeClosures ==
  CASE Callee.t = "Closure" -> {Callee.v}
    [] Callee.t = "BoundMethod" -> {Obj(heap.store, Callee.v).method}
    [] Callee.t = "Class" ->
         IF vm.class_init_method \in DOMAIN Obj(heap.store, Callee.v).methods
         THEN {Obj(heap.store, Callee.v).methods[vm.class_init_method].v}
         ELSE {}
    [] OTHER -> {}

\* the arity of the function of a closure
ArityOf(closure_ptr) == Obj(heap.store, Obj(heap.store, closure_ptr).function).arity

\* C17: Call argc on a callee that is no Closure, NativeFunction, Class or
\* BoundMethod reports 'Can only call functions and classes.'; Call argc
\* on a closure, a bound method or a class with init whose arity is not
\* argc reports a runtime error; both push no callframe and end the run
\* with RuntimeError.
C17_BadCallIsRuntimeError ==
  [][CallPending =>
       /\ Callee.t \notin {"Closure", "NativeFunction", "Class", "BoundMethod"} =>
            /\ stderr' = Append(stderr, "Can only call functions and classes.")
            /\ Len(vm'.call_frames) <= Len(vm.call_frames)
            /\ result' = "RuntimeError"
       /\ (\E cl \in CalleeClosures : ArityOf(cl) # CurInstr.a) =>
            /\ Len(stderr') = Len(stderr) + 1
            /\ Len(vm'.call_frames) <= Len(vm.call_frames)
            /\ result' = "RuntimeError"
    ]_vars

\* a bound method was called with the wrong number of arguments
C17_Witness ==
  /\ tokens = SrcErrBoundArity
  /\ phase = "Done"
  /\ result = "RuntimeError"
  /\ stderr = <<"Expected {} arguments but got {}.">>
  /\ out = <<Line(<<"1">>)>>

\* an instance was called
C17_WitnessNotCallable ==
  /\ tokens = SrcErrCallInstance
  /\ phase = "Done"
  /\ result = "RuntimeError"
  /\ stderr = <<"Can only call functions and classes.">>


\* C18: Call argc on a Class stores a new Instance of that class, with an
\* empty field table, in the callee slot and leaves the rest of the stack;
\* with an init of arity argc it pushes the frame of init on the argc
\* arguments with the instance in slot 0; without init it goes on to the
\* next instruction when argc is 0 and reports a runtime error otherwise.
C18_ClassCallMakesInstance ==
  [][CallPending /\ Callee.t = "Class" =>
       LET argc == CurInstr.a
           slot == Len(vm.stack) - argc
           made == vm'.stack[slot]
           caller == Len(vm.call_frames)
       IN /\ Len(vm'.stack) = Len(vm.stack)
          /\ \A i \in 1..Len(vm.stack) : i # slot => vm'.stack[i] = vm.stack[i]
          /\ made.t = "Instance"
          /\ made.v \notin DOMAIN heap.store
          /\ made.v \in DOMAIN heap'.store
          /\ heap'.store[made.v].k = "LoxInstance"
          /\ heap'.store[made.v].class = Callee.v
          /\ heap'.store[made.v].fields = EmptyMap
          /\ \A cl \in CalleeClosures :
               ArityOf(cl) = argc /\ caller < FRAMES_MIN_SIZE =>
                 /\ vm'.call_frames =
                      Append(vm.call_frames,
                             [closure |-> cl, ip |-> 0, frame_index |-> slot - 1])
                 /\ result' = "Running"
                 /\ stderr' = stderr
          /\ CalleeClosures = {} /\ argc = 0 =>
               /\ Len(vm'.call_frames) = caller
               /\ vm'.call_frames[caller].ip = CurFrame(Machine).ip + Len(Encode(CurInstr))
               /\ result' = "Running"
               /\ stderr' = stderr
          /\ CalleeClosures = {} /\ argc # 0 =>
               /\ result' = "RuntimeError"
               /\ stderr' = Append(stderr, "Expected 0 arguments but got {}")
    ]_vars

\* a class with init has been called with one argument: the frame of init
\* starts at the slot of the new instance, below the argument
C18_Witness ==
  /\ tokens = SrcClass
  /\ phase = "Running"
  /\ Len(vm.call_frames) = 2
  /\ vm.call_frames[2].ip = 0
  /\ vm.stack[vm.call_frames[2].frame_index + 1].t = "Instance"
  /\ Len(vm.stack) = vm.call_frames[2].frame_index + 2
  /\ Obj(heap.store, vm.stack[vm.call_frames[2].frame_index + 1].v).fields = EmptyMap
  /\ vm.call_frames[2].closure
       \in {m.v : m \in {Obj(heap.store,
                             Obj(heap.store, vm.stack[vm.call_frames[2].frame_index + 1].v).class
                            ).methods[vm.class_init_method]}}

\* a class without init has been called with an argument
C18_WitnessNoInit ==
  /\ tokens = SrcErrInit
  /\ phase = "Done"
  /\ result = "RuntimeError"
  /\ stderr = <<"Expected 0 arguments but got {}">>


\* the closures that are the init method of a class
InitClosures ==
  {heap.store[p].methods[vm.class_init_method].v :
     p \in {q \in DOMAIN heap.store :
              /\ heap.store[q].k = "LoxClass"
              /\ vm.class_init_method \in DOMAIN heap.store[q].methods}}

\* every Return among instrs comes straight after GetLocal 0
ReturnsSlotZero(instrs) ==
  \A i \in 1..Len(instrs) :
    instrs[i].op = "Return" => i > 1 /\ instrs[i - 1] = I1("GetLocal", 0)

\* a Return dispatched in the frame of a class's init leaves slot 0 of the
\* frame, an instance, as the result of the call
InitReturnsInstance ==
  Dispatching /\ CurInstr.op = "Return" /\ CurFrame(Machine).closure \in InitClosures =>
    LET slot == CurFrame(Machine).frame_index + 1
    IN /\ vm.stack[slot].t = "Instance"
       /\ Len(vm'.stack) = slot
       /\ vm'.stack[slot] = vm.stack[slot]
       /\ Len(vm'.call_frames) = Len(vm.call_frames) - 1

\* while an initializer is compiled, each Return of its chunk returns slot
\* zero, or 'Can't return a value from an initializer.' has been reported
InitReturnValueRejected ==
  phase = "Compiling" =>
    \A i \in 1..Len(compiler.ctx_stk) :
      compiler.ctx_stk[i].function_type = "Initializer" =>
        \/ ReturnsSlotZero(Instrs(compiler.ctx_stk[i].function.chunk.code, 0))
        \/ \E j \in 1..Len(errors) :
             errors[j].message = "Can't return a value from an initializer."

\* C19: the result of calling a class with an init is the new instance:
\* the Return at the end of init and that of a bare return; both return
\* slot 0, which holds the instance, and return <expr>; in an init is a
\* compile error.
C19_InitReturnsTheInstance ==
  /\ [][InitReturnsInstance]_vars
  /\ []InitReturnValueRejected
  /\ [](phase = "Done" /\ tokens = SrcBadInitReturn => result = "CompileError")

\* an init has returned through a bare return and another through its end,
\* and the fields of the two instances made were printed
C19_Witness ==
  /\ tokens = SrcInitReturn
  /\ phase = "Done"
  /\ result = "Ok"
  /\ out = <<Line(<<"t", "r", "u", "e">>), Line(<<"2">>)>>

\* return <expr>; in an init has been reported
C19_WitnessRejected ==
  /\ tokens = SrcBadInitReturn
  /\ full_rules
  /\ phase = "Done"
  /\ result = "CompileError"
  /\ Len(errors) = 1
  /\ errors[1].message = "Can't return a value from an initializer."


\* the method table of the class a value designates
MethodsOf(store, class_value) == Obj(store, class_value.v).methods

\* after Inherit every entry of the superclass's method table is an entry
\* of the subclass's
InheritCopiesMethods ==
  Dispatching /\ CurInstr.op = "Inherit" =>
    /\ Peek(vm, 1).t = "Class"
    /\ Peek(vm, 0).t = "Class"
    /\ Peek(vm, 1).v # Peek(vm, 0).v
    /\ \A name \in DOMAIN MethodsOf(heap.store, Peek(vm, 1)) :
         /\ name \in DOMAIN MethodsOf(heap'.store, Peek(vm, 0))
         /\ MethodsOf(heap'.store, Peek(vm, 0))[name] = MethodsOf(heap.store, Peek(vm, 1))[name]
    /\ MethodsOf(heap'.store, Peek(vm, 1)) = MethodsOf(heap.store, Peek(vm, 1))

\* SuperInvoke name argc runs the superclass's closure for name in a new
\* frame whose slot 0 is the this of the frame that dispatches it
SuperInvokeDispatches ==
  Dispatching /\ CurInstr.op = "SuperInvoke" =>
    LET name == FrameChunk(Machine, CurFrame(Machine)).values[CurInstr.a + 1].v
        superclass == Peek(vm, 0)
    IN /\ superclass.t = "Class"
       /\ name \in DOMAIN MethodsOf(heap.store, superclass)
       /\ Len(vm'.call_frames) = Len(vm.call_frames) + 1
       /\ Last(vm'.call_frames).closure = MethodsOf(heap.store, superclass)[name].v
       /\ Last(vm'.call_frames).ip = 0
       /\ vm'.stack[Last(vm'.call_frames).frame_index + 1]
            = vm.stack[CurFrame(Machine).frame_index + 1]

CurConstant == FrameChunk(Machine, CurFrame(Machine)).values[CurInstr.a + 1]

\* C21: SetGlobal on a name without an entry in globals reports 'Undefined
\* variable', ends the run with RuntimeError and leaves globals as it was;
\* on a name with an entry it overwrites that entry only and leaves the
\* stack, with the assigned value on top, as it was.
C21_SetGlobalNeedsAnEntry ==
  [][Dispatching /\ CurInstr.op = "SetGlobal" =>
       IF CurConstant.v \in DOMAIN vm.globals
       THEN /\ DOMAIN vm'.globals = DOMAIN vm.globals
            /\ vm'.globals[CurConstant.v] = Peek(vm, 0)
            /\ \A k \in DOMAIN vm.globals :
                 k # CurConstant.v => vm'.globals[k] = vm.globals[k]
            /\ vm'.stack = vm.stack
            /\ stderr' = stderr
            /\ result' = "Running"
       ELSE /\ vm'.globals = vm.globals
            /\ stderr' = Append(stderr, "Undefined variable '{}'.")
            /\ result' = "RuntimeError"
    ]_vars

\* an assignment to a global that was never defined has ended the run, and
\* the name has no entry
C21_Witness ==
  /\ tokens = SrcErrSetGlobal
  /\ phase = "Done"
  /\ result = "RuntimeError"
  /\ stderr = <<"Undefined variable '{}'.">>
  /\ out = <<Line(<<"1">>)>>
  /\ \A k \in DOMAIN vm.globals : vm.globals[k].t = "NativeFunction"

\* an assignment to a defined global is about to overwrite its entry with
\* another value
C21_WitnessOverwrite ==
  /\ Dispatching
  /\ CurInstr.op = "SetGlobal"
  /\ CurConstant.v \in DOMAIN vm.globals
  /\ vm.globals[CurConstant.v] # Peek(vm, 0)


\* resolving the name of any local of any function being compiled binds to
\* the most recently declared local of that name, without an error when
\* that local is initialized
ResolveBindsInnermost ==
  phase = "Compiling" =>
    \A i \in 1..Len(compiler.ctx_stk) :
      LET locals == compiler.ctx_stk[i].stack_sim.locals
      IN \A j \in 1..Len(locals) :
           (\A k \in (j + 1)..Len(locals) : locals[k].name # locals[j].name) =>
             LET res == resolve_local_ctx(compiler, i - 1, locals[j].name)
             IN /\ res.r = j - 1
                /\ locals[j].depth # -1 => res.c.errors = compiler.errors

\* C22: a name resolves to the innermost declaration of it among the
\* function's locals, scanned from the most recent one; a name read in its
\* own initializer is the compile error 'Can't read local variable in its
\* own initializer.'  The shadowing source prints the inner 2, then the
\* outer 1; { var a = a; } does not compile, with or without an outer a.
C22_ResolveInnermostLocal ==
  /\ ResolveBindsInnermost
  /\ (tokens = SrcShadow /\ phase = "Done") =>
       /\ result = "Ok"
       /\ out = <<Line(<<"2">>), Line(<<"1">>)>>
  /\ (tokens \in {SrcBadOwnInitBlock, SrcBadOwnInit, SrcShadowOwnInit} /\ phase = "Done") =>
       /\ result = "CompileError"
       /\ Len(errors) = 1
       /\ errors[1].message = "Can't read local variable in its own initializer."
       /\ errors[1].at = <<"a">>

\* the shadowing local was read inside its block and the shadowed one after
C22_Witness ==
  /\ tokens = SrcShadow
  /\ phase = "Done"
  /\ result = "Ok"
  /\ out = <<Line(<<"2">>), Line(<<"1">>)>>

\* a local read in its own initializer has been reported, an initialized
\* local of the same name being in scope
C22_WitnessOwnInitializer ==
  /\ tokens = SrcShadowOwnInit
  /\ phase = "Done"
  /\ result = "CompileError"
  /\ errors[1].message = "Can't read local variable in its own initializer."


\* the bytes the objects behind a set of handles report, as the store has them
BytesOf(store_, handles) ==
  SumOver(handles, [p \in handles |-> bytes_allocated_of(store_[p])])

\* a collection run in any running state leaves bytes_allocated at the bytes
\* of the reachable objects of the object list plus those of the reachable
\* interned strings
CollectCountsSurvivors ==
  phase = "Running" =>
    LET live == Reachable(heap.store, vm) \cap DOMAIN heap.store
        objects == {heap.objects[i] : i \in 1..Len(heap.objects)} \cap live
        strs == {heap.interned_strs[str] : str \in DOMAIN heap.interned_strs} \cap live
    IN collect_garbage(heap, vm).bytes_allocated
         = BytesOf(heap.store, objects) + BytesOf(heap.store, strs)

\* a step of the debug_stress_gc build that collected before its last
\* allocation ends with bytes_allocated at the bytes of all objects in the
\* store: the survivors and what was allocated since (Closure is left out,
\* the closure receiving its upvalues after the last collection of the step)
StressStepCountsStore ==
  [][stress /\ phase = "Running" /\ collections' > collections
       /\ CurInstr.op # "Closure"
       => heap'.bytes_allocated = BytesOf(heap'.store, DOMAIN heap'.store)]_vars

\* C23: immediately after every collection, bytes_allocated is the sum of
\* bytes_allocated() over the surviving heap objects plus the surviving
\* interned strings.
C23_BytesAllocatedAfterCollection ==
  /\ []CollectCountsSurvivors
  /\ StressStepCountsStore

\* a collection that frees objects and strings and keeps objects and
\* strings, so that the count changes
C23_Witness ==
  /\ phase = "Running"
  /\ collect_garbage(heap, vm).bytes_allocated \notin {0, heap.bytes_allocated}
  /\ \E p \in Reachable(heap.store, vm) \cap DOMAIN heap.store :
       Obj(heap.store, p).k = "LoxStr"
  /\ \E p \in Reachable(heap.store, vm) \cap DOMAIN heap.store :
       Obj(heap.store, p).k \in {"LoxInstance", "LoxClass"} /\ Obj(heap.store, p).cap > 0
  /\ \E p \in DOMAIN heap.store \ Reachable(heap.store, vm) :
       Obj(heap.store, p).k = "LoxStr"
  /\ \E p \in DOMAIN heap.store \ Reachable(heap.store, vm) :
       Obj(heap.store, p).k # "LoxStr"

\* a collection has run in the stress build and swept objects
C23_WitnessStress ==
  /\ stress
  /\ phase = "Running"
  /\ collections > 0
  /\ Swept # {}
  /\ heap.bytes_allocated = BytesOf(heap.store, DOMAIN heap.store)


\* the objects a step has allocated and that its collections have left
AllocatedBy(before, after) == {p \in DOMAIN after.store : p >= before.next_serial}

\* collect_if_needed, outside the debug_stress_gc build, collects exactly
\* when bytes_allocated is above next_gc, and a collection in any running
\* state sets next_gc to the larger of 1 MiB and twice the survivors' bytes
ThresholdDecides ==
  phase = "Running" =>
    LET live == Reachable(heap.store, vm) \cap DOMAIN heap.store
        site == collect_if_needed([Machine EXCEPT !.stress = FALSE])
    IN /\ heap.bytes_allocated <= heap.next_gc =>
            site.heap = heap /\ site.collections = collections
       /\ heap.bytes_allocated > heap.next_gc =>
            site.heap = collect_garbage(heap, vm) /\ site.collections = collections + 1
       /\ collect_garbage(heap, vm).next_gc
            = Max(1024 * 1024, 2 * BytesOf(heap.store, live))

\* a step outside the stress build collects only when bytes_allocated was
\* above next_gc (a Closure allocates several times and may pass the
\* threshold between its allocation sites)
CollectsOnlyAboveThreshold ==
  [][~stress /\ phase = "Running" /\ collections' > collections
       => heap.bytes_allocated > heap.next_gc \/ CurInstr.op = "Closure"]_vars

\* a step that collected leaves next_gc at the larger of 1 MiB and twice the
\* bytes of the survivors, which are the bytes counted at the end of the
\* step less the objects allocated after the collection
NextGcAfterCollection ==
  [][phase = "Running" /\ collections' > collections /\ CurInstr.op # "Closure"
       => heap'.next_gc
            = Max(1024 * 1024,
                  2 * (heap'.bytes_allocated
                         - BytesOf(heap'.store, AllocatedBy(heap, heap'))))]_vars

\* C24: outside stress mode a collection runs at an allocation site only
\* when bytes_allocated exceeds next_gc; after every collection next_gc is
\* max(1 MiB, 2 * bytes_allocated of the survivors); next_gc is never below
\* 1 MiB.
C24_ThresholdAndNextGc ==
  /\ [](heap.next_gc >= 1024 * 1024)
  /\ [](phase = "Compiling" => compiler.heap.next_gc >= 1024 * 1024)
  /\ []ThresholdDecides
  /\ CollectsOnlyAboveThreshold
  /\ NextGcAfterCollection

\* the threshold build has collected and the survivors were above half a
\* MiB, so that next_gc has grown
C24_Witness ==
  /\ ~stress
  /\ phase = "Running"
  /\ collections > 0
  /\ heap.next_gc > 1024 * 1024

\* the threshold build is about to collect: an allocating instruction is
\* dispatched with bytes_allocated above next_gc
C24_WitnessAbove ==
  /\ ~stress
  /\ Dispatching
  /\ CurInstr.op = "Add"
  /\ heap.bytes_allocated > heap.next_gc

\* a collection of the stress build has left next_gc at 1 MiB
C24_WitnessFloor ==
  /\ stress
  /\ phase = "Running"
  /\ Swept # {}
  /\ heap.next_gc = 1024 * 1024


(* ------------------------------------------------------------------ *)
(* Instructions written to a chunk and read back: add_instruction      *)
(* encodes each one at the end of the code, ChunkIterator decodes from  *)
(* the start.  calls holds the instructions written, out the ones the   *)
(* iterator has yielded and steps its offset.                          *)
(* ------------------------------------------------------------------ *)
\* how many instructions a chunk is given
CodeLengths == 0..2

\* operand values written: the ends of each width, a tag byte, two unlike bytes
U8Operands == {0, 1, U8_MAX}
U16Operands == {0, 258, U16_MAX}

\* every variant of Instruction with the operand values drawn from S8 and S16
InstructionsOver(S8, S16) ==
  UNION {IF OperandWidths(OpNames[t]) = <<>> THEN {I0(OpNames[t])}
         ELSE IF OperandWidths(OpNames[t]) = <<2>> THEN {I1(OpNames[t], a) : a \in S16}
         ELSE IF OperandWidths(OpNames[t]) = <<1>> THEN {I1(OpNames[t], a) : a \in S8}
         ELSE {I2(OpNames[t], a, b) : a \in S8, b \in S8} : t \in 1..Len(OpNames)}

InitCode ==
  /\ scanner = ScannerNone
  /\ tokens = <<>>
  /\ full_rules = TRUE
  /\ stress = FALSE
  /\ stack_above = FALSE
  /\ clock = 0
  /\ phase = "Start"
  /\ errors = <<>>
  /\ compiler = CompilerNew(tokens, full_rules)
  /\ calls = <<>>
  /\ vm_init = VmInitNone
  /\ heap = HeapNew
  /\ vm = VmNone
  /\ out = <<>>
  /\ stderr = <<>>
  /\ result = "Running"
  /\ collections = 0
  /\ steps = 0
  /\ exit_code = -1

\* the code of the chunk being written
Code == compiler.ctx_stk[1].function.chunk.code

\* Chunk::add_instruction
CodeWrite ==
  /\ phase \in {"Start", "Writing"}
  /\ Len(calls) + 1 \in CodeLengths
  /\ \E instr \in InstructionsOver(U8Operands, U16Operands) :
       /\ compiler' = [compiler EXCEPT !.ctx_stk[1].function.chunk =
                                         add_instruction(@, instr)]
       /\ calls' = Append(calls, instr)
  /\ phase' = "Writing"
  /\ UNCHANGED <<scanner, tokens, full_rules, stress, stack_above, clock, errors, vm_init, heap,
                 vm, out, stderr, result, collections, steps, exit_code>>

\* ChunkIterator::next
CodeRead ==
  /\ phase \in {"Writing", "Reading"}
  /\ steps < Len(Code)
  /\ \E d \in {Decode(Code, steps)} :
       /\ out' = Append(out, d.instr)
       /\ steps' = d.next
  /\ phase' = "Reading"
  /\ UNCHANGED <<scanner, tokens, full_rules, stress, stack_above, clock, compiler, calls, errors,
                 vm_init, heap, vm, stderr, result, collections, exit_code>>

NextCode == CodeWrite \/ CodeRead

SpecCode == InitCode /\ [][NextCode]_vars

\* the bytes the first n instructions written take
RECURSIVE WrittenBytes(_)
WrittenBytes(n) == IF n = 0 THEN 0 ELSE WrittenBytes(n - 1) + Len(Encode(calls[n]))

\* the bytes of an instruction's operands
OperandBytes(instr) == SumOver(DOMAIN OperandWidths(instr.op), OperandWidths(instr.op))

\* C25: for every instruction variant and operand value, decoding the bytes
\* encode wrote gives the same instruction and consumes exactly those bytes;
\* decoding a concatenation of encoded instructions returns the instructions
\* in order.  The first conjunct takes every variant with every value of its
\* operands, followed by bytes that are not its own.
C25_EncodeDecodeRoundTrip ==
  /\ phase = "Start" =>
       \A t \in 1..Len(OpNames) :
         \A a \in (IF OperandWidths(OpNames[t]) = <<>> THEN {0}
                   ELSE IF OperandWidths(OpNames[t]) = <<2>> THEN 0..U16_MAX
                   ELSE 0..U8_MAX) :
           \A b \in (IF Len(OperandWidths(OpNames[t])) = 2 THEN 0..U8_MAX ELSE {0}) :
             LET instr == [op |-> OpNames[t], a |-> a, b |-> b]
             IN /\ Decode(Encode(instr) \o <<1, U8_MAX>>, 0)
                     = [instr |-> instr, next |-> 1 + OperandBytes(instr)]
                /\ Len(Encode(instr)) = 1 + OperandBytes(instr)
  /\ out = SubSeq(calls, 1, Len(out))
  /\ steps = WrittenBytes(Len(out))
  /\ Len(Code) = WrittenBytes(Len(calls))
  /\ Instrs(Code, 0) = calls
  /\ steps = Len(Code) => out = calls

\* two instructions with operands of both widths have been written and
\* read back to the end of the code
C25_Witness ==
  /\ phase = "Reading"
  /\ steps = Len(Code)
  /\ Len(out) = 2
  /\ out = calls
  /\ out[1] = I1("JumpBack", 258)
  /\ out[2] = I2("Invoke", 1, U8_MAX)


\* the instruction about to be dispatched calls close_upvalues
ClosePending ==
  /\ Dispatching
  /\ \/ CurInstr.op = "CloseUpvalue" /\ Len(vm.stack) > 0
     \/ CurInstr.op = "Return" /\ Len(vm.call_frames) > 1

\* the slot index it passes: the top slot, or the returning frame's base
CloseFrom ==
  IF CurInstr.op = "CloseUpvalue" THEN Len(vm.stack) - 1 ELSE CurFrame(Machine).frame_index

\* the entries of the open-upvalue list
ListedUpvalues(vm_) == {vm_.open_upvalues[n] : n \in 1..Len(vm_.open_upvalues)}

\* C26 (refuted): close_upvalues(i) closes every open upvalue of a slot at
\* or above i; afterwards the list holds exactly the upvalues that were in
\* it and target a slot below i, each still open: no closed upvalue stays
\* in the list and none of a lower slot leaves it.
C26_CloseUpvaluesKeepsLower ==
  [][ClosePending =>
       /\ \A p \in ListedUpvalues(vm) :
            heap.store[p].open /\ heap.store[p].slot >= CloseFrom =>
              /\ ~heap'.store[p].open
              /\ heap'.store[p].value = vm.stack[heap.store[p].slot + 1]
       /\ vm'.open_upvalues =
            SelectSeq(vm.open_upvalues,
                      LAMBDA p : heap.store[p].open /\ heap.store[p].slot < CloseFrom)
       /\ \A p \in ListedUpvalues(vm') : heap'.store[p].open]_vars

\* what the code does keep: every listed open upvalue of a slot at or above
\* i is closed with the value of its slot, and no upvalue is added
C26_ClosesThoseAtOrAbove ==
  [][ClosePending =>
       /\ \A p \in ListedUpvalues(vm) :
            heap.store[p].open /\ heap.store[p].slot >= CloseFrom =>
              /\ ~heap'.store[p].open
              /\ heap'.store[p].value = vm.stack[heap.store[p].slot + 1]
       /\ ListedUpvalues(vm') \subseteq ListedUpvalues(vm)]_vars

\* a close_upvalues call has closed an upvalue while one of a lower slot
\* was in the list
C26_Witness ==
  /\ phase = "Running"
  /\ \E p \in DOMAIN heap.store : heap.store[p].k = "Upvalue" /\ ~heap.store[p].open
  /\ \E p \in ListedUpvalues(vm) : heap.store[p].open


\* the closures the Vm can still reach
LiveClosures ==
  {p \in Reachable(heap.store, vm) \cap DOMAIN heap.store : heap.store[p].k = "LoxClosure"}

\* the upvalues the closures the Vm can still reach refer to
ClosureUpvalues ==
  UNION {{heap.store[p].upvalues[n] : n \in 1..Len(heap.store[p].upvalues)} :
           p \in LiveClosures}

\* C27 (refuted): after each instruction every upvalue a closure refers to
\* is either open on a slot below the top of the stack, or closed with its
\* own value; no open upvalue is left on a slot that Return, Pop or
\* CloseUpvalue has popped.
C27_UpvaluesOpenOnLiveSlots ==
  phase = "Running" /\ result = "Running" =>
    \A u \in ClosureUpvalues :
      /\ u \in DOMAIN heap.store
      /\ heap.store[u].open => heap.store[u].slot < Len(vm.stack)

\* a closure holds an open upvalue on a live slot and another holds a
\* closed one
C27_Witness ==
  /\ phase = "Running"
  /\ result = "Running"
  /\ \E u \in ClosureUpvalues : heap.store[u].open /\ heap.store[u].slot < Len(vm.stack)
  /\ \E u \in ClosureUpvalues : ~heap.store[u].open


\* the open upvalues among the objects of the heap that the Vm can reach or
\* that are in the list
OpenUpvalues ==
  {u \in (ClosureUpvalues \cup ListedUpvalues(vm)) \cap DOMAIN heap.store :
     heap.store[u].open}

\* a Closure instruction captures a local of the running frame for which
\* an open upvalue is in the list
CaptureOfListedSlot ==
  /\ Dispatching
  /\ CurInstr.op = "Closure"
  /\ \E up \in {heap.store[CurConstant.v].upvalues[n] :
                  n \in 1..Len(heap.store[CurConstant.v].upvalues)} :
       /\ up.kind = "Local"
       /\ \E u \in ListedUpvalues(vm) :
            heap.store[u].open /\ heap.store[u].slot = CurFrame(Machine).frame_index + up.index

\* capture_upvalue, applied in any running state to any slot of the stack,
\* returns the listed open upvalue of that slot without allocating when
\* there is one, and otherwise a new open upvalue of that slot, put in the list
CaptureReusesListed ==
  phase = "Running" /\ result = "Running" =>
    \A slot \in 0..(Len(vm.stack) - 1) :
      LET r == capture_upvalue(Machine, slot)
          listed == {u \in ListedUpvalues(vm) : heap.store[u].open /\ heap.store[u].slot = slot}
      IN IF listed # {}
         THEN r.ptr \in listed /\ r.s.heap = heap /\ r.s.vm = vm
         ELSE /\ r.ptr \notin DOMAIN heap.store
              /\ r.s.heap.store[r.ptr] = [UpvalueNew(slot) EXCEPT !.addr = r.s.heap.store[r.ptr].addr]
              /\ ListedUpvalues(r.s.vm) = ListedUpvalues(vm) \cup {r.ptr}

\* C28 (refuted): capture_upvalue(slot) returns the open upvalue that
\* exists for the slot and allocates only when there is none; hence at most
\* one open upvalue exists per stack slot, every open upvalue a closure
\* refers to is in the open-upvalue list, and the closures that captured
\* one variable hold one upvalue.
C28_OneOpenUpvaluePerSlot ==
  /\ CaptureReusesListed
  /\ phase = "Running" /\ result = "Running" =>
       /\ \A u, w \in OpenUpvalues : heap.store[u].slot = heap.store[w].slot => u = w
       /\ \A u \in ClosureUpvalues :
            u \in DOMAIN heap.store /\ heap.store[u].open => u \in ListedUpvalues(vm)

\* two closures hold the one open upvalue of a slot
C28_Witness ==
  /\ phase = "Running"
  /\ result = "Running"
  /\ \E p, q \in LiveClosures :
       /\ p # q
       /\ \E n \in 1..Len(heap.store[p].upvalues), m \in 1..Len(heap.store[q].upvalues) :
            /\ heap.store[p].upvalues[n] = heap.store[q].upvalues[m]
            /\ heap.store[heap.store[p].upvalues[n]].open


\* the slots of the open entries of the open-upvalue list, in list order
\* (an entry that close_upvalues has closed and left in the list points at
\* its own value and has no slot)
OpenListedSlots ==
  [n \in 1..Len(SelectSeq(vm.open_upvalues, LAMBDA p : heap.store[p].open)) |->
     heap.store[SelectSeq(vm.open_upvalues, LAMBDA p : heap.store[p].open)[n]].slot]

C29_WitnessWithClosed ==
  /\ phase = "Running"
  /\ Len(OpenListedSlots) >= 2
  /\ Len(vm.open_upvalues) > Len(OpenListedSlots)


\* the script is about to return: every statement of the program has run
\* to its end, and no local but slot zero is in scope
ScriptReturning ==
  /\ Dispatching
  /\ CurInstr.op = "Return"
  /\ Len(vm.call_frames) = 1

\* C30 (refuted): every statement run to its end, on every branch, leaves
\* the stack at the frame's base plus the locals in scope; no condition
\* value or temporary stays, and the slots the compiler gave the locals
\* address them.  At the end of the script the stack holds slot zero and the
\* value to return; a local declared after an if without else whose
\* condition was false is read back.
C30_StatementsLeaveNoTemporaries ==
  /\ ScriptReturning => Len(vm.stack) = 2
  /\ tokens = SrcIfNoElse /\ phase = "Done" =>
       result = "Ok" /\ out = <<Line(<<"2">>)>>
  /\ tokens = SrcBranches /\ phase = "Done" =>
       /\ result = "Ok"
       /\ out = <<Line(<<"1">>), Line(<<"4">>), Line(<<"5">>), Line(<<"0">>),
                  Line(<<"1">>), Line(<<"7">>), Line(<<"3">>)>>

\* what holds of the code: the statements other than an if without else
\* whose condition is false leave nothing
C30_OtherStatementsLeaveNothing ==
  /\ ScriptReturning /\ tokens # SrcIfNoElse => Len(vm.stack) = 2
  /\ tokens = SrcBranches /\ phase = "Done" =>
       /\ result = "Ok"
       /\ out = <<Line(<<"1">>), Line(<<"4">>), Line(<<"5">>), Line(<<"0">>),
                  Line(<<"1">>), Line(<<"7">>), Line(<<"3">>)>>

\* the statements of every kind have run, on both branches of an if with
\* else and on the taken branch of an if without, and the script returns
C30_Witness ==
  /\ tokens = SrcBranches
  /\ ScriptReturning
  /\ Len(out) = 7
  /\ Len(vm.stack) = 2

\* the condition of an if without else stays on the stack
C30_WitnessLeftOver ==
  /\ tokens = SrcIfNoElse
  /\ ScriptReturning
  /\ Len(vm.stack) = 3
  /\ vm.stack[2] = BooleanV(FALSE)


\* a Call or Invoke is about to be dispatched; its argument count
CallOrInvokePending == Dispatching /\ CurInstr.op \in {"Call", "Invoke"}

PendingArgCount == IF CurInstr.op = "Call" THEN CurInstr.a ELSE CurInstr.b

\* the instruction a frame's ip stands at
InstrAt(frame) == Decode(FrameChunk(Machine, frame).code, frame.ip)

\* the step pushes a callframe: the frame's base is the depth less argc
\* less one, the arguments keep their slots above the base, slot zero holds
\* the callee (a closure), the receiver (a bound method, an invoked method)
\* or the new instance (a class), and the caller's ip stays on the call
CallPushesFrame ==
  [][CallOrInvokePending /\ Len(vm'.call_frames) = Len(vm.call_frames) + 1 =>
       LET base == Len(vm.stack) - PendingArgCount - 1
           frame == Last(vm'.call_frames)
       IN /\ frame.frame_index = base
          /\ frame.ip = 0
          /\ Front(vm'.call_frames) = vm.call_frames
          /\ Len(vm'.stack) = Len(vm.stack)
          /\ \A n \in 1..Len(vm.stack) : n # base + 1 => vm'.stack[n] = vm.stack[n]
          /\ vm.stack[base + 1].t = "Closure" =>
               vm'.stack[base + 1] = vm.stack[base + 1] /\ frame.closure = vm.stack[base + 1].v
          /\ vm.stack[base + 1].t = "BoundMethod" /\ CurInstr.op = "Call" =>
               vm'.stack[base + 1] = heap.store[vm.stack[base + 1].v].receiver
          /\ vm.stack[base + 1].t = "Class" =>
               /\ vm'.stack[base + 1].t = "Instance"
               /\ heap'.store[vm'.stack[base + 1].v].class = vm.stack[base + 1].v
          /\ vm.stack[base + 1].t = "Instance" /\ CurInstr.op = "Invoke" =>
               LET fields == heap.store[vm.stack[base + 1].v].fields
                   name == CurConstant.v
               IN IF name \notin DOMAIN fields THEN vm'.stack[base + 1] = vm.stack[base + 1]
                  ELSE /\ fields[name].t = "Closure" =>
                            vm'.stack[base + 1] = fields[name] /\ frame.closure = fields[name].v
                       /\ fields[name].t = "BoundMethod" =>
                            vm'.stack[base + 1] = heap.store[fields[name].v].receiver
                       /\ fields[name].t = "Class" => vm'.stack[base + 1].t = "Instance"]_vars

\* every frame above the script's was pushed by the call its caller's ip
\* stands at, with the base that call gave it
FramesMatchCalls ==
  phase = "Running" /\ result = "Running" =>
    \A k \in 2..Len(vm.call_frames) :
      /\ InstrAt(vm.call_frames[k - 1]).instr.op \in {"Call", "Invoke", "SuperInvoke"}
      /\ vm.call_frames[k].frame_index < Len(vm.stack)

\* the Return of a called function: the stack is cut to the base and the
\* result pushed, so that it takes the callee's slot and the depth is the
\* depth before the call less argc; the frame is popped and the caller's ip
\* moves to the instruction after its call
ReturnPopsFrame ==
  [][Dispatching /\ CurInstr.op = "Return" /\ Len(vm.call_frames) > 1 =>
       LET frame == CurFrame(Machine)
           caller == vm.call_frames[Len(vm.call_frames) - 1]
           argc == IF InstrAt(caller).instr.op = "Call" THEN InstrAt(caller).instr.a
                   ELSE InstrAt(caller).instr.b
       IN /\ Len(vm'.stack) = frame.frame_index + 1
          /\ Len(vm'.stack) = (frame.frame_index + argc + 1) - argc
          /\ vm'.stack = Append(SubSeq(vm.stack, 1, frame.frame_index), Peek(vm, 0))
          /\ Len(vm'.call_frames) = Len(vm.call_frames) - 1
          /\ Last(vm'.call_frames) = [caller EXCEPT !.ip = InstrAt(caller).next]
          /\ Front(vm'.call_frames) = SubSeq(vm.call_frames, 1, Len(vm.call_frames) - 2)
          /\ result' = "Running"]_vars

\* C31: a Call argc on a closure pushes a callframe whose base is the stack
\* depth less argc less one, slot zero holding the callee or receiver and
\* slots 1..argc the arguments; when the matching Return completes the depth
\* is the depth before the Call less argc, the return value is in the
\* callee's slot, the callframe is popped and the caller resumes at the
\* instruction after the Call or Invoke.
C31_CallAndReturnFrames ==
  /\ CallPushesFrame
  /\ []FramesMatchCalls
  /\ ReturnPopsFrame

\* a function called with arguments has returned into a caller that is
\* itself a called function
C31_Witness ==
  /\ phase = "Running"
  /\ \E k \in 2..Len(vm.call_frames) :
       /\ InstrAt(vm.call_frames[k]).instr.op = "Call"
       /\ InstrAt(vm.call_frames[k]).instr.a > 0
  /\ Len(vm.call_frames) >= 3

\* a Return of a function called with an argument is about to run
C31_WitnessReturn ==
  /\ Dispatching
  /\ CurInstr.op = "Return"
  /\ Len(vm.call_frames) > 1
  /\ InstrAt(vm.call_frames[Len(vm.call_frames) - 1]).instr.op = "Call"
  /\ InstrAt(vm.call_frames[Len(vm.call_frames) - 1]).instr.a = 1


\* an Invoke on an instance is about to be dispatched
InvokePending ==
  /\ Dispatching
  /\ CurInstr.op = "Invoke"
  /\ Peek(vm, CurInstr.b).t = "Instance"

\* what the Invoke arm does with the name and argument count
ViaInvoke == invoke(Machine, CurConstant.v, CurInstr.b)

\* GetProperty name run on the receiver, before the arguments are on the
\* stack above it, and Call argc run with the arguments on the stack
ViaGetPropertyCall ==
  LET argc == CurInstr.b
      depth == Len(vm.stack)
      args == SubSeq(vm.stack, depth - argc + 1, depth)
      got == exec_get_property([Machine EXCEPT !.vm.stack = SubSeq(vm.stack, 1, depth - argc)],
                               CurConstant.v)
      pushed == [got.s EXCEPT !.vm.stack = @ \o args]
  IN IF got.flow # "next" THEN [s |-> got.s, ok |-> FALSE]
     ELSE call_value(pushed, Peek(pushed.vm, argc), argc)

\* the state the claim compares: stack, callframes with their ips, globals
\* and the outcome.  When the call fails the stack is compared up to the
\* receiver's slot: GetProperty fails before the arguments are evaluated,
\* Invoke after.
VmOutcome(r, argc) ==
  [stack |-> IF r.ok THEN r.s.vm.stack ELSE SubSeq(r.s.vm.stack, 1, Len(vm.stack) - argc),
   call_frames |-> r.s.vm.call_frames,
   globals |-> r.s.vm.globals,
   had_runtime_error |-> r.s.vm.had_runtime_error,
   result |-> IF r.ok THEN r.s.result ELSE "RuntimeError",
   out |-> r.s.out,
   ok |-> r.ok]

\* the receiver's field or class has the invoked name
InvokeHitsField ==
  InvokePending /\ CurConstant.v \in DOMAIN Obj(heap.store, Peek(vm, CurInstr.b).v).fields

InvokeHitsMethod ==
  /\ InvokePending
  /\ CurConstant.v \in DOMAIN Obj(heap.store, Obj(heap.store, Peek(vm, CurInstr.b).v).class).methods

C32_WitnessMethod ==
  ~InvokeHitsField /\ InvokeHitsMethod /\ CurInstr.b = 1 /\ ViaInvoke.ok

\* an Invoke whose name is neither a field nor a method
C32_WitnessMiss ==
  InvokePending /\ ~InvokeHitsField /\ ~InvokeHitsMethod

\* an Invoke whose call fails on the argument count, through a field
C32_WitnessArity ==
  InvokeHitsField /\ ~ViaInvoke.ok


\* the calls of Compiler::function in progress: the functions and methods
\* whose body is being compiled
FunctionsInProgress == Cardinality({i \in DOMAIN calls : calls[i].f = "function"})

\* the body of a function or method has been compiled and Compiler::function
\* is about to finish
FunctionEnds == phase = "Compiling" /\ calls # <<>> /\ Last(calls).f = "function"

\* the code compiled so far into the chunk of context k, the script's being 1
CtxCode(c, k) == c.ctx_stk[k].function.chunk.code

\* the current context is the one of the innermost function in progress
ContextOfFunctionInProgress ==
  phase = "Compiling" =>
    /\ Len(compiler.ctx_stk) = 1 + FunctionsInProgress
    /\ compiler.curr_ctx = FunctionsInProgress

\* a function that ends leaves the enclosing context current, with a Closure
\* instruction after the code the enclosing chunk held
FunctionRestoresContext(bodies) ==
     FunctionEnds /\ cctx(compiler).errh.had_error \in bodies =>
       LET d == Len(compiler.ctx_stk) - 1
           code == CtxCode(compiler, d)
           begun == Cardinality({i \in DOMAIN calls' : calls'[i].f = "function"})
                      - (FunctionsInProgress - 1)
       IN /\ Len(compiler'.ctx_stk) = d + begun
          /\ compiler'.curr_ctx = compiler.curr_ctx - 1 + begun
          /\ Len(CtxCode(compiler', d)) >= Len(code) + 2
          /\ SubSeq(CtxCode(compiler', d), 1, Len(code)) = code
          /\ CtxCode(compiler', d)[Len(code) + 1] = Encode(I1("Closure", 0))[1]

\* C33: after Compiler::function has finished a function or method body the
\* current context is the enclosing one again, the context stack as deep
\* and curr_ctx as they were before it was called, and the Closure
\* instruction is in the enclosing chunk, whether or not the body had
\* compile errors.
C33_FunctionRestoresContext ==
  /\ []ContextOfFunctionInProgress
  /\ [][FunctionRestoresContext(BOOLEAN)]_vars

\* the same of the bodies compiled without an error
C33_RestoredWithoutErrors == [][FunctionRestoresContext({FALSE})]_vars

\* a function whose body had an error has ended and its context is still
\* the current one
C33_Witness ==
  /\ phase = "Compiling"
  /\ Len(compiler.ctx_stk) > 1 + FunctionsInProgress
  /\ cctx(compiler).errh.had_error

\* a function nested in a function has ended without errors
C33_WitnessNested ==
  /\ phase = "Compiling"
  /\ FunctionsInProgress = 1
  /\ Len(compiler.ctx_stk) = 2
  /\ \E i \in DOMAIN cctx(compiler).function.chunk.values :
       cctx(compiler).function.chunk.values[i].t = "Function"
  /\ ~cctx(compiler).errh.had_error


\* the names of the initialized locals of the contexts that enclose the
\* current one
EnclosingLocalNames ==
  UNION {{compiler.ctx_stk[k].stack_sim.locals[i].name :
            i \in 1..Len(compiler.ctx_stk[k].stack_sim.locals)} :
         k \in 1..(Len(compiler.ctx_stk) - 1)}
  \ UNION {{compiler.ctx_stk[k].stack_sim.locals[i].name :
              i \in {j \in 1..Len(compiler.ctx_stk[k].stack_sim.locals) :
                       compiler.ctx_stk[k].stack_sim.locals[j].depth = -1}} :
           k \in 1..(Len(compiler.ctx_stk) - 1)}

\* the descriptors a context holds
Descriptors(upvalues) == {upvalues[i] : i \in DOMAIN upvalues}

\* the innermost enclosing context, counted from 0, that has the name as
\* a local, and the local's slot
OwnerOf(name) ==
  CHOOSE k \in 0..(Len(compiler.ctx_stk) - 2) :
    /\ resolve_local_ctx(compiler, k, name).r # -1
    /\ \A j \in (k + 1)..(Len(compiler.ctx_stk) - 2) : resolve_local_ctx(compiler, j, name).r = -1

\* resolve_upvalue from the current function finds name as claimed
ResolvesAsClaimed(name) ==
  LET top == Len(compiler.ctx_stk) - 1
      k == OwnerOf(name)
      slot == resolve_local_ctx(compiler, k, name).r
      first == resolve_upvalue(compiler, top, name)
      again == resolve_upvalue(first.c, top, name)
      ups(j) == first.c.ctx_stk[j + 1].upvalues
      \* the index at which context j holds its descriptor of the variable
      at[j \in (k + 1)..top] ==
        IF j = k + 1
        THEN CHOOSE i \in 0..(Len(ups(j)) - 1) : ups(j)[i + 1] = [kind |-> "Local", index |-> slot]
        ELSE CHOOSE i \in 0..(Len(ups(j)) - 1) :
               ups(j)[i + 1] = [kind |-> "Upvalue", index |-> at[j - 1]]
  IN /\ first.c.ctx_stk[k + 1].stack_sim.locals[slot + 1].captured
     /\ [kind |-> "Local", index |-> slot] \in Descriptors(ups(k + 1))
     /\ \A j \in (k + 2)..top : [kind |-> "Upvalue", index |-> at[j - 1]] \in Descriptors(ups(j))
     /\ first.r = at[top]
     \* every descriptor once
     /\ \A j \in (k + 1)..top :
          \A a, b \in 1..Len(ups(j)) : ups(j)[a] = ups(j)[b] => a = b
     \* nothing but the flag and the descriptors changed
     /\ \A j \in 1..(top + 1) :
          /\ j # k + 1 => first.c.ctx_stk[j].stack_sim = compiler.ctx_stk[j].stack_sim
          /\ Len(first.c.ctx_stk[j].upvalues) <= Len(compiler.ctx_stk[j].upvalues) + 1
          /\ SubSeq(first.c.ctx_stk[j].upvalues, 1, Len(compiler.ctx_stk[j].upvalues))
               = compiler.ctx_stk[j].upvalues
     \* resolved again: the same index and no new descriptor
     /\ again.r = first.r
     /\ again.c = first.c

\* C34: resolving a variable that is a local of an enclosing function marks
\* the local captured and leaves the descriptor (Local, slot) in the
\* function nested directly in the local's function and (Upvalue, i) in
\* every function nested further; resolving it again from the same
\* function returns the same index and adds no descriptor.
C34_ResolveUpvalueChain ==
  phase = "Compiling" /\ Len(compiler.ctx_stk) >= 2 =>
    \A name \in EnclosingLocalNames : ResolvesAsClaimed(name)

\* a function nested two deep in the function of a local has resolved it:
\* the function between holds (Local, slot), the innermost (Upvalue, 0)
C34_Witness ==
  /\ phase = "Compiling"
  /\ errors = <<>>
  /\ Len(compiler.ctx_stk) = 4
  /\ compiler.ctx_stk[3].upvalues = <<[kind |-> "Local", index |-> 1]>>
  /\ compiler.ctx_stk[4].upvalues = <<[kind |-> "Upvalue", index |-> 0]>>
  /\ compiler.ctx_stk[2].stack_sim.locals[2].captured
  /\ compiler.ctx_stk[2].stack_sim.locals[2].name \in EnclosingLocalNames


\* the byte offsets at which the instructions of a chunk's code start
RECURSIVE InstrStarts(_, _)
InstrStarts(code, pos) ==
  IF pos >= Len(code) THEN {}
  ELSE {pos} \cup InstrStarts(code, Decode(code, pos).next)

\* a jump instruction is about to be dispatched and will be taken
JumpPending ==
  /\ Dispatching
  /\ \/ CurInstr.op \in {"JumpForward", "JumpBack"}
     \/ CurInstr.op = "JumpFwdIfFalse" /\ is_falsey(Peek(vm, 0))

\* the compiler after emit_instruction of each of the instructions
RECURSIVE EmitAll(_, _)
EmitAll(c, instrs) ==
  IF instrs = <<>> THEN c ELSE EmitAll(emit_instruction(c, Head(instrs)), Tail(instrs))

\* the code a jump is emitted over: nothing, one-byte, two-byte and
\* three-byte instructions
JumpedOver ==
  {<<>>, <<I0("Pop")>>, <<I1("GetLocal", 1), I0("Print")>>,
   <<I1("JumpForward", 3), I0("Nil"), I0("Pop")>>}

\* emit_jump, code, patch_fwd_jump, an instruction: the operand the patch
\* wrote leads from the jump to that instruction
PatchedJumpLands(c, op, instrs) ==
  LET jump == emit_jump(c, I1(op, U16_MAX))
      over == EmitAll(jump.c, instrs)
      patched == patch_fwd_jump(over, jump.r)
      after == emit_instruction(patched, I0("True"))
      code == cctx(after).function.chunk.code
      d == Decode(code, jump.r)
  IN /\ d.instr.op = op
     /\ jump.r + d.instr.a = next_byte_index(patched)
     /\ Decode(code, jump.r + d.instr.a).instr = I0("True")
     /\ patched.errors = c.errors

\* a recorded loop start, code, emit_back_jump: the operand leads from the
\* JumpBack to the loop start
BackJumpLands(c, instrs) ==
  LET loop_start == next_byte_index(c)
      body == EmitAll(emit_instruction(c, I0("False")), instrs)
      jumped == emit_back_jump(body, loop_start)
      code == cctx(jumped).function.chunk.code
      d == Decode(code, next_byte_index(body))
  IN /\ d.instr.op = "JumpBack"
     /\ d.next = next_byte_index(jumped)
     /\ next_byte_index(body) - d.instr.a = loop_start
     /\ Decode(code, loop_start).instr = I0("False")

\* what the compiler emits, at every point the compiler reaches between
\* statements
JumpsCompiledToTargets ==
  phase = "Compiling" =>
    \A instrs \in JumpedOver :
      /\ PatchedJumpLands(compiler, "JumpForward", instrs)
      /\ PatchedJumpLands(compiler, "JumpFwdIfFalse", instrs)
      /\ BackJumpLands(compiler, instrs)

\* what the VM does with a jump: ip moves by the operand, forward or back,
\* counted from the start of the jump, and stands on the start of an
\* instruction or on the end of the code; a JumpFwdIfFalse on a value that
\* is not falsey goes on to the next instruction
JumpsTakenToTargets ==
  [][Dispatching /\ CurInstr.op \in {"JumpForward", "JumpBack", "JumpFwdIfFalse"} =>
       LET frame == CurFrame(Machine)
           code == FrameChunk(Machine, frame).code
           target == IF ~JumpPending THEN Decode(code, frame.ip).next
                     ELSE IF CurInstr.op = "JumpBack" THEN frame.ip - CurInstr.a
                     ELSE frame.ip + CurInstr.a
       IN /\ Last(vm'.call_frames) = [frame EXCEPT !.ip = target]
          /\ target \in InstrStarts(code, 0)
          /\ vm'.stack = vm.stack
          /\ CurInstr.op = "JumpBack" => target < frame.ip
          /\ JumpPending /\ CurInstr.op # "JumpBack" => target > frame.ip]_vars

\* C35: a patched forward jump, taken, sets ip to the instruction emitted
\* first after patch_fwd_jump; a JumpBack sets it to the byte index recorded
\* as the loop start; a taken jump never lands inside the operand bytes of
\* an instruction.
C35_JumpsLandOnTargets ==
  /\ []JumpsCompiledToTargets
  /\ JumpsTakenToTargets

\* a JumpBack of a for loop with an increment is about to be taken
C35_Witness ==
  /\ JumpPending
  /\ CurInstr.op = "JumpBack"
  /\ \E back \in InstrStarts(FrameChunk(Machine, CurFrame(Machine)).code, 0) :
       /\ back > CurFrame(Machine).ip - CurInstr.a
       /\ back < CurFrame(Machine).ip
       /\ Decode(FrameChunk(Machine, CurFrame(Machine)).code, back).instr.op = "JumpBack"

\* a JumpFwdIfFalse is about to be taken
C35_WitnessIfFalse == JumpPending /\ CurInstr.op = "JumpFwdIfFalse"

\* a JumpForward is about to be taken
C35_WitnessForward == JumpPending /\ CurInstr.op = "JumpForward"


\* the objects and interned strings the heap owns
HeapOwned ==
  {heap.objects[i] : i \in 1..Len(heap.objects)}
    \cup {heap.interned_strs[str] : str \in DOMAIN heap.interned_strs}

\* the bytes of the upvalue arrays of the closures the heap owns
UpvalueArrayBytes ==
  LET closures == {p \in HeapOwned : heap.store[p].k = "LoxClosure"}
  IN SumOver(closures, [p \in closures |-> Len(heap.store[p].upvalues) * SizeOfGc])

\* C36 (refuted): at every instruction boundary bytes_allocated is the sum
\* of bytes_allocated() over the objects and interned strings the heap
\* owns, closures counted with their filled upvalue arrays and classes and
\* instances with their grown tables.
C36_BytesAllocatedIsSum ==
  phase = "Running" => heap.bytes_allocated = BytesOf(heap.store, HeapOwned)

\* what holds: bytes_allocated is short of the sum by no more than the
\* upvalue arrays of the closures, and is the sum while no closure has one
C36_ShortByUpvalueArrays ==
  phase = "Running" =>
    /\ heap.bytes_allocated <= BytesOf(heap.store, HeapOwned)
    /\ BytesOf(heap.store, HeapOwned) - heap.bytes_allocated <= UpvalueArrayBytes

\* a class and an instance have grown their tables and the count is the sum
C36_Witness ==
  /\ phase = "Running"
  /\ \E p \in HeapOwned : heap.store[p].k = "LoxClass" /\ heap.store[p].cap > 0
  /\ \E p \in HeapOwned : heap.store[p].k = "LoxInstance" /\ heap.store[p].cap > 0
  /\ heap.bytes_allocated = BytesOf(heap.store, HeapOwned)

\* a closure's upvalue array is filled and the count is short of the sum, in
\* the build that collects on the threshold only
C36_WitnessShort ==
  /\ phase = "Running"
  /\ ~stress
  /\ ~full_rules
  /\ heap.bytes_allocated < BytesOf(heap.store, HeapOwned)


\* an Equal is about to be dispatched
EqualPending == Dispatching /\ CurInstr.op = "Equal"

\* the tags check_equals compares the payloads of
ComparedTags == {"Nil", "Boolean", "Number", "String"}

\* Equal pops its two operands and pushes one Boolean, and the run goes on
EqualPushesBoolean(operands) ==
  EqualPending /\ operands =>
    /\ result' = "Running"
    /\ Len(vm'.stack) = Len(vm.stack) - 1
    /\ SubSeq(vm'.stack, 1, Len(vm.stack) - 2) = SubSeq(vm.stack, 1, Len(vm.stack) - 2)
    /\ Last(vm'.stack).t = "Boolean"
    /\ Peek(vm, 0).t # Peek(vm, 1).t => Last(vm'.stack) = BooleanV(FALSE)
    /\ Peek(vm, 0) = Peek(vm, 1) => Last(vm'.stack) = BooleanV(TRUE)

\* C37 (refuted): Equal on any pair of operands, two values of one object
\* tag included, pops both and pushes exactly one Boolean, and never aborts
\* the interpreter.
C37_EqualPushesBoolean == [][EqualPushesBoolean(TRUE)]_vars

\* what holds: Equal on operands of different tags, or both nil, Boolean,
\* number or string
C37_EqualOnComparedTags ==
  [][EqualPushesBoolean(Peek(vm, 0).t # Peek(vm, 1).t \/ Peek(vm, 0).t \in ComparedTags)]_vars

\* Equal on two closures has aborted the interpreter
C37_Witness ==
  /\ phase = "Done"
  /\ result = "Panic"
  /\ Decode(FrameChunk(Machine, CurFrame(Machine)).code, CurFrame(Machine).ip).instr.op = "Equal"
  /\ Peek(vm, 0).t = "Closure"
  /\ Peek(vm, 1).t = "Closure"

\* Equal on two strings is about to be dispatched
C37_WitnessStrings == EqualPending /\ Peek(vm, 0).t = "String" /\ Peek(vm, 1).t = "String"

\* Equal on operands of different tags is about to be dispatched
C37_WitnessMixed == EqualPending /\ Peek(vm, 0).t # Peek(vm, 1).t


(* ------------------------------------------------------------------ *)
(* The Scanner of scanner.rs, an iterator of tokens over the           *)
(* characters of a source, driven by the for loop of                   *)
(* Interpreter::print_tokens.  A character is a string of length one,  *)
(* the empty string stands for the None of Peekable::peek.             *)
(* ------------------------------------------------------------------ *)
NoChar == ""

\* char::is_digit(BASE) and char::is_alphabetic on the characters used
DigitSet == {"0", "1", "2", "3", "4", "5", "6", "7", "8", "9"}

LetterSet ==
  {"a", "b", "c", "d", "e", "f", "g", "h", "i", "j", "k", "l", "m", "n", "o", "p", "q",
   "r", "s", "t", "u", "v", "w", "x", "y", "z"}

\* Scanner::new
ScannerNew(source) == [source |-> source, curr |-> 0, start |-> 0, line |-> 1]

\* self.curr.peek() and DoubleLookAhead::peek_twice, the characters only
peek(sc) == IF sc.curr < Len(sc.source) THEN sc.source[sc.curr + 1] ELSE NoChar

peek_twice(sc) == IF sc.curr + 1 < Len(sc.source) THEN sc.source[sc.curr + 2] ELSE NoChar

\* self.curr.next()
next_char(sc) == [sc EXCEPT !.curr = IF sc.curr < Len(sc.source) THEN sc.curr + 1 ELSE sc.curr]

\* while the peeked character is one of chars { self.curr.next() }
next_while(sc, chars) ==
  [sc EXCEPT !.curr =
     CHOOSE k \in sc.curr..Len(sc.source) :
       /\ k = Len(sc.source) \/ sc.source[k + 1] \notin chars
       /\ \A j \in (sc.curr + 1)..k : sc.source[j] \in chars]

\* Scanner::make_token: the lexeme runs from start to the peeked character
make_token(sc, kind) ==
  [line |-> sc.line, kind |-> kind, description |-> SubSeq(sc.source, sc.start + 1, sc.curr)]

\* Scanner::error_token
error_token(sc, msg) == [line |-> sc.line, kind |-> "Error", description |-> <<msg>>]

\* one turn of the loop of Scanner::skip_whitespace; break tells that the
\* loop is left
skip_whitespace(sc) ==
  With([a \in {peek(sc)} |->
     IF a = NoChar THEN [sc |-> sc, break |-> TRUE]
     ELSE IF a \in {" ", "\r", "\t"} THEN [sc |-> next_char(sc), break |-> FALSE]
     ELSE IF a = "\n"
          THEN [sc |-> next_char([sc EXCEPT !.line = sc.line + 1]), break |-> FALSE]
     ELSE IF a = "/"
          THEN [sc |-> IF peek_twice(sc) = "/"
                       THEN next_while(next_char(next_char(sc)), {"\n"})
                       ELSE sc,
                break |-> FALSE]
     ELSE [sc |-> sc, break |-> TRUE]])

\* Scanner::string
scanner_string(sc) ==
  With([sc1 \in {next_while(sc, {sc.source[i] : i \in DOMAIN sc.source} \ {"\""})} |->
     IF peek(sc1) = NoChar THEN [sc |-> sc1, tok |-> error_token(sc1, "Unterminated string.")]
     ELSE [sc |-> next_char(sc1), tok |-> make_token(next_char(sc1), "String")]])

\* Scanner::digit
digit(sc) ==
  With([sc1 \in {next_while(sc, DigitSet)} |->
  With([is_fraction \in {peek(sc1) = "." /\ peek_twice(sc1) \in DigitSet} |->
  With([sc2 \in {IF is_fraction THEN next_while(next_char(sc1), DigitSet) ELSE sc1} |->
     [sc |-> sc2, tok |-> make_token(sc2, "Number")]])])])

\* check_match of identifier_type
check_match(a, b, kind) == IF a = b THEN kind ELSE "Identifier"

\* identifier_type
identifier_type(ident) ==
  With([c \in {Head(ident)} |->
  With([remaining \in {Tail(ident)} |->
     CASE c = "a" -> check_match(remaining, <<"n", "d">>, "And")
       [] c = "c" -> check_match(remaining, <<"o", "m", "m", "a">>, "Comma")
       [] c = "e" -> check_match(remaining, <<"l", "s", "e">>, "Else")
       [] c = "i" -> check_match(remaining, <<"f">>, "If")
       [] c = "n" -> check_match(remaining, <<"i", "l">>, "Nil")
       [] c = "o" -> check_match(remaining, <<"r">>, "Or")
       [] c = "p" -> check_match(remaining, <<"r", "i", "n", "t">>, "Print")
       [] c = "r" -> check_match(remaining, <<"e", "t", "u", "r", "n">>, "Return")
       [] c = "s" -> check_match(remaining, <<"u", "p", "e", "r">>, "Super")
       [] c = "v" -> check_match(remaining, <<"a", "r">>, "Var")
       [] c = "w" -> check_match(remaining, <<"h", "i", "l", "e">>, "While")
       [] c = "f" ->
            IF remaining = <<>> THEN "Identifier"
            ELSE CASE Head(remaining) = "a" ->
                        check_match(Tail(remaining), <<"l", "s", "e">>, "False")
                   [] Head(remaining) = "o" -> check_match(Tail(remaining), <<"r">>, "For")
                   [] Head(remaining) = "u" -> check_match(Tail(remaining), <<"n">>, "Fun")
                   [] OTHER -> "Identifier"
       [] c = "t" ->
            IF remaining = <<>> THEN "Identifier"
            ELSE CASE Head(remaining) = "h" ->
                        check_match(Tail(remaining), <<"i", "s">>, "This")
                   [] Head(remaining) = "r" ->
                        check_match(Tail(remaining), <<"u", "e">>, "True")
                   [] OTHER -> "Identifier"
       [] OTHER -> "Identifier"])])

\* Scanner::identifier
identifier(sc) ==
  With([sc1 \in {next_while(sc, LetterSet \cup DigitSet)} |->
     [sc |-> sc1,
      tok |-> make_token(sc1, identifier_type(SubSeq(sc1.source, sc1.start + 1, sc1.curr)))]])

\* consume_if('=') and the token of either outcome
consume_if_equal(sc, with, without) ==
  IF peek(sc) = "=" THEN [sc |-> next_char(sc), tok |-> make_token(next_char(sc), with)]
  ELSE [sc |-> sc, tok |-> make_token(sc, without)]

\* the TokenType of the single-character tokens of Scanner::next
SingleCharTokens ==
  [c \in {"(", ")", "{", "}", ",", ".", "-", "+", ";", "/", "*"} |->
     CASE c = "(" -> "LeftParen" [] c = ")" -> "RightParen"
       [] c = "{" -> "LeftBrace" [] c = "}" -> "RightBrace"
       [] c = "," -> "Comma" [] c = "." -> "Dot"
       [] c = "-" -> "Minus" [] c = "+" -> "Plus"
       [] c = ";" -> "SemiColon" [] c = "/" -> "Slash" [] c = "*" -> "Star"]

\* Iterator::next of Scanner from the return of skip_whitespace, on a
\* source that has not ended
next(sc) ==
  With([c \in {peek(sc)} |->
  With([sc1 \in {next_char([sc EXCEPT !.start = sc.curr])} |->
     IF c \in DigitSet THEN digit(sc1)
     ELSE IF c \in LetterSet THEN identifier(sc1)
     ELSE IF c \in DOMAIN SingleCharTokens
          THEN [sc |-> sc1, tok |-> make_token(sc1, SingleCharTokens[c])]
     ELSE IF c = "!" THEN consume_if_equal(sc1, "BangEqual", "Bang")
     ELSE IF c = "=" THEN consume_if_equal(sc1, "EqualEqual", "Equal")
     ELSE IF c = ">" THEN consume_if_equal(sc1, "GreaterEqual", "Greater")
     ELSE IF c = "<" THEN consume_if_equal(sc1, "LessEqual", "Less")
     ELSE IF c = "\"" THEN scanner_string(sc1)
     ELSE [sc |-> sc1, tok |-> error_token(sc1, "Unexpected character.")]])])

\* the spelling of each keyword of the language
KeywordSpellings ==
  "And" :> <<"a", "n", "d">>
    @@ "Class" :> <<"c", "l", "a", "s", "s">>
    @@ "Else" :> <<"e", "l", "s", "e">>
    @@ "False" :> <<"f", "a", "l", "s", "e">>
    @@ "For" :> <<"f", "o", "r">>
    @@ "Fun" :> <<"f", "u", "n">>
    @@ "If" :> <<"i", "f">>
    @@ "Nil" :> <<"n", "i", "l">>
    @@ "Or" :> <<"o", "r">>
    @@ "Print" :> <<"p", "r", "i", "n", "t">>
    @@ "Return" :> <<"r", "e", "t", "u", "r", "n">>
    @@ "Super" :> <<"s", "u", "p", "e", "r">>
    @@ "This" :> <<"t", "h", "i", "s">>
    @@ "True" :> <<"t", "r", "u", "e">>
    @@ "Var" :> <<"v", "a", "r">>
    @@ "While" :> <<"w", "h", "i", "l", "e">>

KeywordWords == {KeywordSpellings[k] : k \in DOMAIN KeywordSpellings}

\* the sources scanned: every source of up to ScanLengths characters over a
\* slash, a blank, a newline, a letter and a digit; every keyword, every
\* keyword less its last letter, with one more letter and with a digit more,
\* and between blanks; the word comma; and sources with the other tokens
ScanLengths == 0..3

ScanChars == {"/", " ", "\n", "a", "1"}

ScanWords ==
  KeywordWords
    \cup {Front(w) : w \in KeywordWords}
    \cup {w \o <<"s">> : w \in KeywordWords}
    \cup {w \o <<"1">> : w \in KeywordWords}
    \cup {<<" ">> \o w \o <<" ">> : w \in KeywordWords}
    \cup {<<"c", "o", "m", "m", "a">>, <<"c">>, <<"t", "h">>, <<"f", "a">>, <<"x", "1", "y">>}

ScanSources ==
  UNION {[1..n -> ScanChars] : n \in ScanLengths}
    \cup ScanWords
    \cup {<<"1", "/", "2">>,
          <<"a", " ", "/", "/", " ", "b", "\n", "c">>,
          <<"/", "/", "\n", "\n", "a">>,
          <<"a", "!", "=", "b", "=", "=", "1", "<", "=", "2", ">", "3">>,
          <<"(", "\"", "a", " ", "b", "\"", ")", ";">>,
          <<"\"", "a">>,
          <<"1", ".", "5", "+", "2", ".", "x">>,
          <<"{", "a", "\t", ",", "\r", "b", "}", "*", "-", "!", "@">>}

InitScan ==
  /\ scanner \in {ScannerNew(source) : source \in ScanSources}
  /\ tokens = <<>>
  /\ full_rules = TRUE
  /\ stress = FALSE
  /\ stack_above = FALSE
  /\ clock = 0
  /\ phase = "Scanning"
  /\ errors = <<>>
  /\ compiler = CompilerDropped
  /\ calls = <<>>
  /\ vm_init = VmInitNone
  /\ heap = HeapNew
  /\ vm = VmNone
  /\ out = <<>>
  /\ stderr = <<>>
  /\ result = "Running"
  /\ collections = 0
  /\ steps = 0
  /\ exit_code = -1

\* a turn of the loop of skip_whitespace that stays in the loop
ScanSkip ==
  /\ phase = "Scanning"
  /\ ~skip_whitespace(scanner).break
  /\ scanner' = skip_whitespace(scanner).sc
  /\ UNCHANGED <<tokens, full_rules, stress, stack_above, clock, phase, compiler, calls,
                 errors, vm_init, heap, vm, out, stderr, result, collections, steps,
                 exit_code>>

\* skip_whitespace returns before a character: Iterator::next returns a
\* token, which print_tokens prints
ScanToken ==
  /\ phase = "Scanning"
  /\ skip_whitespace(scanner).break
  /\ peek(scanner) # NoChar
  /\ \E r \in {next(scanner)} :
       /\ scanner' = r.sc
       /\ out' = Append(out, r.tok)
  /\ UNCHANGED <<tokens, full_rules, stress, stack_above, clock, phase, compiler, calls,
                 errors, vm_init, heap, vm, stderr, result, collections, steps, exit_code>>

\* skip_whitespace returns at the end of the source: Iterator::next returns
\* None and the for loop of print_tokens ends
ScanEnd ==
  /\ phase = "Scanning"
  /\ skip_whitespace(scanner).break
  /\ peek(scanner) = NoChar
  /\ scanner' = [scanner EXCEPT !.start = Len(scanner.source)]
  /\ phase' = "Scanned"
  /\ UNCHANGED <<tokens, full_rules, stress, stack_above, clock, compiler, calls, errors,
                 vm_init, heap, vm, out, stderr, result, collections, steps, exit_code>>

NextScan == ScanSkip \/ ScanToken \/ ScanEnd

\* the scanner is a sequential loop: while it has a turn or a token to
\* take, it takes it
SpecScan == InitScan /\ [][NextScan]_vars /\ WF_vars(NextScan)


\* the character at offset i of the source lies in a comment: behind two
\* slashes with no end of line between
InComment(source, i) ==
  \E j \in 0..(i - 1) :
    /\ j + 2 <= Len(source)
    /\ source[j + 1] = "/"
    /\ source[j + 2] = "/"
    /\ \A k \in (j + 1)..i : source[k] # "\n"

\* the scanner stands before a slash that starts no comment and lies in none
AtLoneSlash ==
  /\ phase = "Scanning"
  /\ peek(scanner) = "/"
  /\ peek_twice(scanner) # "/"
  /\ ~InComment(scanner.source, scanner.curr)

\* the sources without a string quote, in which two slashes start a comment
NoQuote == \A i \in DOMAIN scanner.source : scanner.source[i] # "\""

\* scanning comes to its end
ScanTerminates == <>(phase = "Scanned")

\* a slash that starts no comment becomes a Slash token
SlashBecomesToken == AtLoneSlash ~> (out # <<>> /\ Last(out).kind = "Slash")

\* no token starts in a comment
CommentsSkipped ==
  [][out' # out /\ NoQuote => ~InComment(scanner'.source, scanner'.start)]_vars

\* C38 (refuted): scanning terminates for every finite source; a '/' that
\* does not start '//' is scanned as a Slash token; a '//' comment is
\* skipped through the end of the line.
C38_ScanTerminatesSlashComment ==
  /\ ScanTerminates
  /\ SlashBecomesToken
  /\ CommentsSkipped

\* what holds: a source without a slash is scanned to its end
C38_ScanWithoutSlash ==
  (\A i \in DOMAIN scanner.source : scanner.source[i] # "/") => ScanTerminates

\* after a token the scanner turns in skip_whitespace before a slash, the
\* turn leaving it where it is
C38_Witness ==
  /\ AtLoneSlash
  /\ out # <<>>
  /\ ~skip_whitespace(scanner).break
  /\ skip_whitespace(scanner).sc = scanner

\* a token has been made of the text of a comment
C38_WitnessComment ==
  /\ phase = "Scanning"
  /\ NoQuote
  /\ out # <<>>
  /\ InComment(scanner.source, scanner.start)
  /\ scanner.curr > scanner.start


\* the lexeme of a token is made of letters and digits and starts with a
\* letter: Scanner::identifier made the token
IsWord(description) ==
  /\ description # <<>>
  /\ Head(description) \in LetterSet
  /\ \A i \in DOMAIN description : description[i] \in LetterSet \cup DigitSet

\* the keyword TokenType a word spells, Identifier for any other word
KeywordOf(word) ==
  IF word \in KeywordWords
  THEN CHOOSE k \in DOMAIN KeywordSpellings : KeywordSpellings[k] = word
  ELSE "Identifier"

\* the tokens printed are those of their lexemes, keywords in words
WordsScannedAs(words) ==
  \A i \in DOMAIN out :
    IsWord(out[i].description) /\ out[i].description \in words
      => out[i].kind = KeywordOf(out[i].description)

\* C39 (refuted): a lexeme of letters and digits is scanned as a keyword
\* token exactly when it is one of and, class, else, false, for, fun, if,
\* nil, or, print, return, super, this, true, var, while; every other such
\* lexeme is an Identifier.
C39_KeywordsExactly == WordsScannedAs(Seq(LetterSet \cup DigitSet))

\* what holds: the same of every word but class and comma
C39_KeywordsButClassAndComma ==
  \A i \in DOMAIN out :
    /\ IsWord(out[i].description)
    /\ out[i].description \notin {KeywordSpellings["Class"], <<"c", "o", "m", "m", "a">>}
    => out[i].kind = KeywordOf(out[i].description)

\* the word class has been scanned as an Identifier
C39_Witness ==
  /\ out # <<>>
  /\ Last(out).description = KeywordSpellings["Class"]
  /\ Last(out).kind = "Identifier"

\* the word comma has been scanned as the token of ','
C39_WitnessComma ==
  /\ out # <<>>
  /\ Last(out).description = <<"c", "o", "m", "m", "a">>
  /\ Last(out).kind = "Comma"

\* each of the other keywords has been scanned as its token
C39_WitnessKeywords ==
  /\ out # <<>>
  /\ Last(out).description = KeywordSpellings["While"]
  /\ Last(out).kind = "While"

====
